---- MODULE Spec2Model ----
(***************************************************************************)
(* Model of the snapshot graph of recogne's RCON info layer                *)
(* (src/recogne/api/rcon/info/models.py, types.py): entity nodes with      *)
(* Unset fields, Links, key matching, equality, the event buffer,          *)
(* InfoHopper.compare_older, ModelTree.merge and set_mutable, the checks   *)
(* on the value tree and InfoHopper.gather; and of the authorization       *)
(* policies of src/secpol (_policies.py, _authz_policy.py).                *)
(*                                                                         *)
(* Values are tagged records:                                              *)
(*   [t |-> "Unset"]            the Unset singleton                        *)
(*   [t |-> "None"]             Python None                                *)
(*   [t |-> "S", v |-> str]     a str                                      *)
(*   [t |-> "I", v |-> int]     an int                                     *)
(*   [t |-> "D", v |-> n]       a datetime (tick n)                        *)
(*   [t |-> "Dict", d |-> f]    a dict (f is a function on its keys)       *)
(*   [t |-> "Arr", items |-> s] an InfoModelArray                          *)
(*   [t |-> "Link", ...]        a Link                                     *)
(*   [t |-> "Node", cls |-> c, ...] an InfoModel of class c                *)
(* Of every class only the fields that compare_older, merge and the key    *)
(* machinery read or write are kept.                                       *)
(***************************************************************************)
EXTENDS Integers, Sequences, FiniteSets, TLC

VARIABLES
    newer,   \* the InfoHopper of the current poll (self of compare_older and
             \* of merge, the root operated on, the result of gather)
    older,   \* the InfoHopper of the previous poll (other of compare_older
             \* and of merge, the first source of gather)
    frozen,  \* the model classes whose __config__.allow_mutation is False
    call     \* what the last operation was given, did and returned

vars == <<newer, older, frozen, call>>

-----------------------------------------------------------------------------
(* Values *)

Unset == [t |-> "Unset"]
None == [t |-> "None"]
S(x) == [t |-> "S", v |-> x]
I(x) == [t |-> "I", v |-> x]
D(x) == [t |-> "D", v |-> x]
Dict(f) == [t |-> "Dict", d |-> f]
Arr(s) == [t |-> "Arr", items |-> s]
Link(path, values, fallback) ==
    [t |-> "Link", path |-> path, values |-> values, multiple |-> FALSE,
     fallback |-> fallback]

\* bool(v): UnsetType.__bool__ is False, None, 0, "" and an empty list are
\* falsy, every other object is truthy.
Truthy(v) ==
    CASE v.t = "Unset" -> FALSE
      [] v.t = "None" -> FALSE
      [] v.t = "S" -> v.v # ""
      [] v.t = "I" -> v.v # 0
      [] v.t = "Arr" -> Len(v.items) > 0
      [] v.t = "Dict" -> DOMAIN v.d # {}
      [] OTHER -> TRUE

\* a or b
PyOr(a, b) == IF Truthy(a) THEN a ELSE b

-----------------------------------------------------------------------------
(* Classes *)

KeyFieldsFirst(cls) ==
    CASE cls = "Player" -> {"steamid"}
      [] cls = "Squad" -> {"id"}
      [] cls = "Team" -> {"id"}
      [] cls = "Server" -> {"name"}
      [] OTHER -> {}

KeyFields(cls) ==
    CASE cls = "Player" -> {"steamid", "id", "name"}
      [] cls = "Squad" -> {"id", "name", "team"}
      [] cls = "Team" -> {"id", "name"}
      [] cls = "Server" -> {"name"}
      [] OTHER -> {}

Player(steamid, id, name, created) ==
    [t |-> "Node", cls |-> "Player", steamid |-> steamid, id |-> id,
     name |-> name, role |-> Unset, level |-> Unset, squad |-> Unset,
     team |-> Unset, joined_at |-> Unset, created |-> created]

Squad(id, name, team, created) ==
    [t |-> "Node", cls |-> "Squad", id |-> id, name |-> name, team |-> team,
     leader |-> Unset, created_at |-> Unset, created |-> created]

Team(id, name, created) ==
    [t |-> "Node", cls |-> "Team", id |-> id, name |-> name, score |-> Unset,
     created_at |-> Unset, created |-> created]

Server(created) ==
    [t |-> "Node", cls |-> "Server", name |-> Unset, map |-> Unset,
     state |-> Unset, created |-> created]

\* The event kinds compare_older derives (EventTypes names).
Kinds ==
    {"player_join_server", "player_leave_server", "player_change_role",
     "player_level_up", "player_switch_squad", "player_switch_team",
     "player_score_update", "squad_created", "squad_disbanded",
     "squad_leader_change", "objective_capture", "server_map_changed"}

PlayerKinds ==
    {"player_join_server", "player_leave_server", "player_change_role",
     "player_level_up", "player_switch_squad", "player_switch_team",
     "player_score_update"}

\* An event of class EventTypes[kind]; a field its class does not declare
\* stays Unset.
EventModel(kind, event_time) ==
    [t |-> "Node", cls |-> kind, event_time |-> D(event_time),
     player |-> Unset, squad |-> Unset, team |-> Unset, old |-> Unset,
     new |-> Unset, score |-> Unset, created |-> event_time]

Events == [k \in Kinds |-> Unset]

InfoHopper(created) ==
    [players |-> Unset, squads |-> Unset, teams |-> Unset,
     server |-> Server(created), events |-> Events, solid |-> FALSE]

\* A node of class cls with the given fields set and the others Unset.
Blank(cls, created) ==
    CASE cls = "Player" -> Player(Unset, Unset, Unset, created)
      [] cls = "Squad" -> Squad(Unset, Unset, Unset, created)
      [] cls = "Team" -> Team(Unset, Unset, created)
      [] OTHER -> Server(created)

-----------------------------------------------------------------------------
(* Equality, key attributes, matching *)

\* Link.__eq__ and the == of the builtin values: two Links are equal when
\* their values are, a Link equals a dict whose items are among its values,
\* NotImplemented on both sides falls back to identity.
PyEq(a, b) ==
    CASE a.t = "Link" /\ b.t = "Link" -> a.values = b.values
      [] a.t = "Link" /\ b.t = "Dict" ->
            \A k \in DOMAIN b.d : k \in DOMAIN a.values /\ a.values[k] = b.d[k]
      [] a.t = "Dict" /\ b.t = "Link" ->
            \A k \in DOMAIN a.d : k \in DOMAIN b.values /\ b.values[k] = a.d[k]
      [] OTHER -> a = b

IsMutable(h, cls) == ~h.solid /\ cls \notin frozen

_get_raw_value(n, attr) ==
    IF n[attr].t = "Link" THEN Dict(n[attr].values) ELSE n[attr]

get_key_attributes(n, exclude_unset, exclude_links) ==
    [attr \in {a \in KeyFields(n.cls) :
                  /\ ~(exclude_unset /\ _get_raw_value(n, a) = Unset)
                  /\ ~(exclude_links /\ n[a].t = "Link")}
        |-> _get_raw_value(n, attr)]

\* self.get(key, default, raw=True)
GetRaw(n, key, default) == IF key \in DOMAIN n THEN n[key] ELSE default

matchesKnownFilters(n, ignore_unknown, filters) ==
    \A key \in DOMAIN filters :
        \/ ignore_unknown /\ filters[key] = Unset
        \/ PyEq(GetRaw(n, key, None), filters[key])

matches(n, ignore_unknown, filters) ==
    \A key \in DOMAIN filters :
        \/ ignore_unknown /\ GetRaw(n, key, Unset) = Unset
        \/ PyEq(GetRaw(n, key, None), filters[key])

\* The positions of seq whose member satisfies the filters, lowest first.
MatchSet(items, ignore_unknown, filters) ==
    {i \in 1..Len(items) : matches(items[i], ignore_unknown, filters)}

Min(set) == CHOOSE x \in set : \A y \in set : x <= y

\* res[0] if res else None, as a position: 0 for None.
First(hit) == IF hit = {} THEN 0 ELSE Min(hit)

\* ModelTree._get with multiple=False on a list of nodes: the position of
\* the first match, 0 for None.
_get(items, ignore_unknown, filters) ==
    First(MatchSet(items, ignore_unknown, filters))

-----------------------------------------------------------------------------
(* Attribute access and links *)

Collection(h, path) == h[path]

\* The members of a collection of the hopper; an Unset collection reads as
\* an empty array (ModelTree._get).
Items(h, path) ==
    IF Collection(h, path) = Unset THEN <<>> ELSE Collection(h, path).items

\* ModelTree.has
has(n, name) == name \in DOMAIN n /\ n[name] # Unset

\* The member at a position of _get, None at position 0.
At(items, pos) == IF pos = 0 THEN None ELSE items[pos]

\* res = self._get(...); if not res and link.fallback: return link.fallback
OrFallback(res, link) ==
    IF ~Truthy(res) /\ Truthy(link.fallback) THEN link.fallback ELSE res

\* InfoModel._get_link_value against hopper h: the first member of the
\* linked collection with exactly the link's values, else the fallback when
\* there is one, else None.
_get_link_value(h, link) ==
    OrFallback(At(Items(h, link.path),
                  _get(Items(h, link.path), FALSE, link.values)),
               link)

\* model.get(name): InfoModel.__getattribute__ resolves a Link and raises
\* AttributeError on Unset, which get() turns into the default None.
get(h, n, name) ==
    IF n[name].t = "Link" THEN _get_link_value(h, n[name])
    ELSE IF n[name] = Unset THEN None
    ELSE n[name]

\* Player.__hash__ hashes steamid or name; equal values hash equal.
HashKey(h, p) == PyOr(get(h, p, "steamid"), get(h, p, "name"))

\* all(other_kattrs[attr] == self_kattrs[attr] for the attrs in both)
KeysEq(d1, d2) == \A k \in DOMAIN d1 : k \in DOMAIN d2 => PyEq(d2[k], d1[k])

\* InfoModel.__eq__ between two nodes of one class: no key field that is
\* set in both differs.
KeyEq(a, b) ==
    KeysEq(get_key_attributes(a, TRUE, FALSE),
           get_key_attributes(b, TRUE, FALSE))

NodeSame(ha, a, hb, b) == a = b

\* a == b for two resolved attribute values (a node or None); ha and hb are
\* the hoppers the nodes live in.  Player.__eq__ compares hashes, InfoModel
\* .__eq__ is False across classes, a node never equals None.
NodeEq(ha, a, hb, b) ==
    IF a.t # "Node" \/ b.t # "Node" THEN a = b
    ELSE IF a.cls # b.cls THEN FALSE
    ELSE IF a.cls = "Player" THEN HashKey(ha, a) = HashKey(hb, b)
    ELSE KeyEq(a, b)

\* list.index(match) on a list of nodes of hopper h: the first position
\* holding match itself or a node equal to it.
IndexOf(h, items, mpos) ==
    Min({j \in 1..Len(items) :
            j = mpos \/ NodeEq(h, items[j], h, items[mpos])})

Remove(seq, pos) ==
    [j \in 1..(Len(seq) - 1) |-> IF j < pos THEN seq[j] ELSE seq[j + 1]]

\* InfoModel.copy(hopper): a new node of the class constructed now, every
\* set field of n merged into it.
copy(n, now) == [n EXCEPT !.created = now]

\* The collection of the hopper that holds the nodes of a class.
PathOf(cls) ==
    CASE cls = "Player" -> "players"
      [] cls = "Squad" -> "squads"
      [] cls = "Team" -> "teams"
      [] OTHER -> "server"

\* self.__class__(self.__hopper__, **key_attrs): a node with only the given
\* key fields set.
Keyed(blank, values) ==
    [k \in DOMAIN blank |-> IF k \in DOMAIN values THEN values[k] ELSE blank[k]]

\* create_link once key_attrs, the set non-link key fields, are known.
LinkTo(n, with_fallback, to, now, values) ==
    IF KeyFields(n.cls) = {} THEN [err |-> "TypeError", link |-> None]
    ELSE IF DOMAIN values = {} THEN [err |-> "ValueError", link |-> None]
    ELSE IF ~with_fallback
        THEN [err |-> "", link |-> Link(PathOf(n.cls), values, None)]
    ELSE IF to = None
        THEN [err |-> "",
              link |-> Link(PathOf(n.cls), values,
                            Keyed(Blank(n.cls, now), values))]
    ELSE IF ~IsMutable(to, n.cls)
        THEN [err |-> "TypeError", link |-> None]
    ELSE [err |-> "", link |-> Link(PathOf(n.cls), values, copy(n, now))]

\* InfoModel.create_link.  to is the hopper argument (a hopper, or None for
\* the node's own hopper); the result is [err, link].
create_link(n, with_fallback, to, now) ==
    LinkTo(n, with_fallback, to, now, get_key_attributes(n, TRUE, TRUE))

\* x.create_link(with_fallback=True, hopper=to) if x else None
LinkOrNone(x, to, now) ==
    IF Truthy(x) THEN create_link(x, TRUE, to, now)
    ELSE [err |-> "", link |-> None]

\* A keyword argument whose evaluation cannot raise.
Value(v) == [err |-> "", link |-> v]

-----------------------------------------------------------------------------
(* InfoHopper.compare_older *)

(* The running state of one compare_older call:                            *)
(*   nw      self, as mutated so far                                       *)
(*   old     other, as mutated so far                                      *)
(*   others  the working copy of the older collection, as positions in it  *)
(*   buf     the events added to the local Events buffer, in call order    *)
(*   err     the exception raised, "" while none                           *)
(* and, for the record of the call only (nothing reads them back):         *)
(*   cur     the loop iteration under way: phase, position, leftover loop  *)
(*   src     for every event of buf, the iteration that added it           *)
(*   tr      per phase, for every member of self's collection visited, the *)
(*           position in the older collection of its match (m) and of the  *)
(*           entry deleted from the working copy (r), 0 for none           *)
(* The keyword arguments of an event constructor are a sequence of         *)
(* <<name, outcome>> in evaluation order, an outcome being [err, link]:    *)
(* the exception the argument raises ("" for none) and its value.          *)

Range(seq) == {seq[i] : i \in DOMAIN seq}

Raise(st, err) == [st EXCEPT !.err = err]

\* The exception evaluating the keyword arguments ends in, "" for none.
FirstErr(kwargs) ==
    IF \A j \in DOMAIN kwargs : kwargs[j][2].err = "" THEN ""
    ELSE kwargs[Min({j \in DOMAIN kwargs : kwargs[j][2].err # ""})][2].err

\* EventTypes.<kind>(self, event_time=now, **kwargs)
NewEvent(kind, now, kwargs) ==
    [f \in DOMAIN EventModel(kind, now) |->
        IF \E j \in DOMAIN kwargs : kwargs[j][1] = f
        THEN kwargs[CHOOSE j \in DOMAIN kwargs : kwargs[j][1] = f][2].link
        ELSE EventModel(kind, now)[f]]

addFirst(st, event) ==
    IF \E e \in Range(st.buf) : e.cls = event.cls THEN st
    ELSE [st EXCEPT !.buf = Append(@, event), !.src = Append(@, st.cur)]

\* Events.add(event) on the local buffer: the first event of a kind assigns
\* the kind's field, later ones append to it.
add(st, event) ==
    IF "Events" \in frozen /\ \A e \in Range(st.buf) : e.cls # event.cls
    THEN Raise(st, "TypeError")
    ELSE [st EXCEPT !.buf = Append(@, event), !.src = Append(@, st.cur)]

\* events.add(Cls(self, event_time=now, **kwargs))
Emit(st, kind, now, kwargs) ==
    IF st.err # "" THEN st
    ELSE IF FirstErr(kwargs) # "" THEN Raise(st, FirstErr(kwargs))
    ELSE add(st, NewEvent(kind, now, kwargs))

\* if cond: events.add(Cls(self, event_time=now, **kwargs))
EmitIf(cond, st, kind, now, kwargs) ==
    IF cond THEN Emit(st, kind, now, kwargs) ELSE st

\* The members of the older collection still in the working copy.
Others(old, path, others) ==
    [k \in 1..Len(others) |-> Items(old, path)[others[k]]]

LevelUpOrSame(new, old) == new >= old /\ ~(old = 1 /\ new - old > 1)

LevelUpAny(new, old) == new > old

\* player.level > match.level and not (match.level == 1 and
\* player.level - match.level > 1)
LevelUp(new, old) == new > old /\ ~(old = 1 /\ new - old > 1)

\* self._get(others, multiple=False, ignore_unknown=True,
\* **x.get_key_attributes()) for member i of self's collection: the
\* position of the match in the working copy, 0 for None.
MatchPos(phase, st, i, old) ==
    _get(Others(old, phase, st.others), TRUE,
         get_key_attributes(st.nw[phase].items[i], FALSE, FALSE))

\* match, a node of the older collection or None
Match(phase, st, i, old) ==
    At(Others(old, phase, st.others), MatchPos(phase, st, i, old))

DeleteNothing(phase, st, mpos, ipos) ==
    [st EXCEPT !.tr[phase] = Append(@, [m |-> st.others[mpos],
                                        r |-> st.others[ipos]])]

\* del others[ipos], mpos being the position of the match
Delete(phase, st, mpos, ipos) ==
    [st EXCEPT !.others = Remove(@, ipos),
               !.tr[phase] = Append(@, [m |-> st.others[mpos],
                                        r |-> st.others[ipos]])]

\* if match: del others[others.index(match)], mpos being the position of
\* the match
TakeAt(phase, st, old, mpos) ==
    IF mpos = 0
    THEN [st EXCEPT !.tr[phase] = Append(@, [m |-> 0, r |-> 0])]
    ELSE Delete(phase, st, mpos,
                IndexOf(old, Others(old, phase, st.others), mpos))

\* match = self._get(...); if match: del others[others.index(match)]
Take(phase, st, i, old) == TakeAt(phase, st, old, MatchPos(phase, st, i, old))

SetStampBoth(st, phase, i, field, value) ==
    IF st.err # "" \/ Truthy(get(st.nw, st.nw[phase].items[i], field)) THEN st
    ELSE [st EXCEPT !.nw[phase].items[i][field] = value,
                    !.old = IF i <= Len(Items(@, phase))
                            THEN [@ EXCEPT ![phase].items[i][field] = value]
                            ELSE @]

SetStampOver(st, phase, i, field, value) ==
    IF st.err # "" THEN st
    ELSE [st EXCEPT !.nw[phase].items[i][field] = value]

\* if not x.get(field): x.field = value, for member i of self's collection
SetStamp(st, phase, i, field, value) ==
    IF st.err # "" \/ Truthy(get(st.nw, st.nw[phase].items[i], field)) THEN st
    ELSE IF st.nw[phase].items[i].cls \in frozen THEN Raise(st, "TypeError")
    ELSE [st EXCEPT !.nw[phase].items[i][field] = value]

StampOfSelf(x, old, match, field) == D(x.created)

\* match.get(field) or x.__created_at__ if match else x.__created_at__
StampOf(x, old, match, field) ==
    IF match # None THEN PyOr(get(old, match, field), D(x.created))
    ELSE D(x.created)

\* match.get(field) if match else None
GetOrNone(old, match, field) ==
    IF match # None THEN get(old, match, field) ELSE None

\* "if match:" of "for player in self.players", the role change.
RoleChange(st, i, old, now, match) ==
    EmitIf(/\ match # None
           /\ has(st.nw.players.items[i], "role") /\ has(match, "role")
           /\ ~PyEq(get(st.nw, st.nw.players.items[i], "role"),
                    get(old, match, "role")),
           st, "player_change_role", now,
           <<<<"player",
               create_link(st.nw.players.items[i], TRUE, None, now)>>,
             <<"old", Value(get(old, match, "role"))>>,
             <<"new", Value(get(st.nw, st.nw.players.items[i], "role"))>>>>)

\* "if match:" of "for player in self.players", the level up.
LevelChange(st, i, old, now, match) ==
    EmitIf(/\ match # None
           /\ has(st.nw.players.items[i], "level") /\ has(match, "level")
           /\ LevelUp(st.nw.players.items[i].level.v, match.level.v),
           st, "player_level_up", now,
           <<<<"player",
               create_link(st.nw.players.items[i], TRUE, None, now)>>,
             <<"old", Value(match.level)>>,
             <<"new", Value(st.nw.players.items[i].level)>>>>)

\* if not match: events.add(PlayerJoinServerEvent(...))
Joined(st, i, now, match) ==
    EmitIf(match = None, st, "player_join_server", now,
           <<<<"player",
               create_link(st.nw.players.items[i], TRUE, None, now)>>>>)

\* if new != prev: events.add(PlayerSwitch<Squad|Team>Event(...)); new and
\* prev are the player's and the match's squad or team, to the hopper the
\* links of the two are created with.
Switched(kind, st, i, old, now, to, new, prev) ==
    EmitIf(~NodeEq(st.nw, new, old, prev), st, kind, now,
           <<<<"player",
               create_link(st.nw.players.items[i], TRUE, st.nw, now)>>,
             <<"old", LinkOrNone(prev, to, now)>>,
             <<"new", LinkOrNone(new, to, now)>>>>)

\* "for player in self.players" up to the join event; old is the older
\* hopper, match the player's match.
PlayerChanges(st, i, old, now, match) ==
    Joined(SetStamp(LevelChange(RoleChange(st, i, old, now, match),
                                i, old, now, match),
                    "players", i, "joined_at",
                    StampOf(st.nw.players.items[i], old, match, "joined_at")),
           i, now, match)

\* "for player in self.players" from p_squad on.
PlayerSwitches(st, i, old, now, match) ==
    Switched("player_switch_team",
             Switched("player_switch_squad", st, i, old, now, st.nw,
                      get(st.nw, st.nw.players.items[i], "squad"),
                      GetOrNone(old, match, "squad")),
             i, old, now, None,
             get(st.nw, st.nw.players.items[i], "team"),
             GetOrNone(old, match, "team"))

\* One iteration of "for player in self.players".
PlayerStep(st, i, old, now) ==
    PlayerSwitches(
        PlayerChanges(Take("players", st, i, old), i, old, now,
                      Match("players", st, i, old)),
        i, old, now, Match("players", st, i, old))

\* if player.get(field): events.add(PlayerSwitch<Squad|Team>Event(...,
\* old=player.<field>.create_link(...), new=None)), for a player that left.
Dropped(kind, st, old, now, player, field, to) ==
    EmitIf(Truthy(get(old, player, field)), st, kind, now,
           <<<<"player", create_link(player, TRUE, st.nw, now)>>,
             <<"old", LinkOrNone(get(old, player, field), to, now)>>,
             <<"new", Value(None)>>>>)

GoneLeaveFirst(st, old, now, player) ==
    EmitIf(old.server.state = S("in_progress"),
           Emit(st, "player_leave_server", now,
                <<<<"player", create_link(player, TRUE, st.nw, now)>>>>),
           "player_score_update", now,
           <<<<"player", create_link(player, TRUE, st.nw, now)>>>>)

\* The score update and the leave event of a player that left.
Gone(st, old, now, player) ==
    Emit(EmitIf(old.server.state = S("in_progress"), st,
                "player_score_update", now,
                <<<<"player", create_link(player, TRUE, st.nw, now)>>>>),
         "player_leave_server", now,
         <<<<"player", create_link(player, TRUE, st.nw, now)>>>>)

\* One iteration of "for player in others": a player that left.
PlayerLeft(st, k, old, now) ==
    \* other.server.state raises AttributeError on an Unset state
    IF old.server.state = Unset THEN Raise(st, "AttributeError")
    ELSE Dropped("player_switch_team",
                 Dropped("player_switch_squad",
                         Gone(st, old, now,
                              Items(old, "players")[st.others[k]]),
                         old, now, Items(old, "players")[st.others[k]],
                         "squad", st.nw),
                 old, now, Items(old, "players")[st.others[k]], "team", None)

\* "if match:" of "for squad in self.squads", the leader change; leader and
\* prev are squad.leader and match.leader.
LeaderChange(st, i, old, now, match, leader, prev) ==
    EmitIf(/\ match # None
           /\ has(st.nw.squads.items[i], "leader") /\ has(match, "leader")
           /\ ~NodeEq(st.nw, leader, old, prev),
           st, "squad_leader_change", now,
           <<<<"old", LinkOrNone(prev, st.nw, now)>>,
             <<"new", LinkOrNone(leader, st.nw, now)>>,
             <<"squad",
               create_link(st.nw.squads.items[i], TRUE, None, now)>>>>)

\* if not match: events.add(SquadCreatedEvent(...))
Created(st, i, now, match) ==
    EmitIf(match = None, st, "squad_created", now,
           <<<<"squad",
               create_link(st.nw.squads.items[i], TRUE, None, now)>>>>)

\* "for squad in self.squads" after the match is taken.
SquadChanges(st, i, old, now, match) ==
    Created(SetStamp(LeaderChange(st, i, old, now, match,
                                  get(st.nw, st.nw.squads.items[i], "leader"),
                                  GetOrNone(old, match, "leader")),
                     "squads", i, "created_at",
                     StampOf(st.nw.squads.items[i], old, match, "created_at")),
            i, now, match)

\* One iteration of "for squad in self.squads".
SquadStep(st, i, old, now) ==
    SquadChanges(Take("squads", st, i, old), i, old, now,
                 Match("squads", st, i, old))

\* One iteration of "for squad in others": a squad that is gone.
SquadLeft(st, k, old, now) ==
    Emit(st, "squad_disbanded", now,
         <<<<"squad", create_link(Items(old, "squads")[st.others[k]], TRUE,
                                  st.nw, now)>>>>)

\* f"{team.score} - {5 - team.score}" for team 1, mirrored for the other
ScoreMessage(id, score) ==
    IF id = I(1)
    THEN S(ToString(score) \o " - " \o ToString(5 - score))
    ELSE S(ToString(5 - score) \o " - " \o ToString(score))

NotWarmupOlder(h) == older.server.state # S("warmup")

\* self.server.get('state') != 'warmup'
NotWarmup(h) == get(h, h.server, "state") # S("warmup")

\* The objective capture of team, a member of self.teams.
Capture(st, now, team) ==
    \* team.id raises AttributeError on an Unset id
    IF team.id = Unset THEN Raise(st, "AttributeError")
    ELSE Emit(st, "objective_capture", now,
              <<<<"team", create_link(team, TRUE, None, now)>>,
                <<"score", Value(ScoreMessage(team.id, team.score.v))>>>>)

\* The objective-capture check of "for team in self.teams".
TeamScore(st, i, old, now, match) ==
    IF ~has(st.nw.teams.items[i], "score") THEN st
    \* match.has on a match of None
    ELSE IF match = None THEN Raise(st, "AttributeError")
    ELSE IF /\ has(match, "score")
            /\ NotWarmup(st.nw)
            /\ st.nw.teams.items[i].score.v > match.score.v
    THEN Capture(st, now, st.nw.teams.items[i])
    ELSE st

\* One iteration of "for team in self.teams".
TeamStep(st, i, old, now) ==
    SetStamp(TeamScore(Take("teams", st, i, old), i, old, now,
                       Match("teams", st, i, old)),
             "teams", i, "created_at",
             StampOf(st.nw.teams.items[i], old, Match("teams", st, i, old),
                     "created_at"))

\* The four loop bodies by name, so that one loop runs them all.
Step(phase, st, i, old, now) ==
    CASE phase = "players" -> PlayerStep(st, i, old, now)
      [] phase = "squads" -> SquadStep(st, i, old, now)
      [] OTHER -> TeamStep(st, i, old, now)

Left(phase, st, k, old, now) ==
    CASE phase = "players" -> PlayerLeft(st, k, old, now)
      [] phase = "squads" -> SquadLeft(st, k, old, now)
      [] OTHER -> st

\* "for x in self.<phase>" from position i on.  same: other is self, so the
\* older nodes are the newer nodes as mutated so far.
RECURSIVE Loop(_, _, _, _, _)
Loop(phase, st, i, same, now) ==
    IF st.err # "" \/ i > Len(Items(st.nw, phase)) THEN st
    ELSE Loop(phase,
              Step(phase,
                   [st EXCEPT !.cur = [ph |-> phase, i |-> i, left |-> FALSE]],
                   i, IF same THEN st.nw ELSE st.old, now),
              i + 1, same, now)

\* "for x in others" from position k on.
RECURSIVE Leftovers(_, _, _, _, _)
Leftovers(phase, st, k, same, now) ==
    IF st.err # "" \/ k > Len(st.others) THEN st
    ELSE Leftovers(phase,
                   Left(phase,
                        [st EXCEPT !.cur = [ph |-> phase, i |-> st.others[k],
                                            left |-> TRUE]],
                        k, IF same THEN st.nw ELSE st.old, now),
                   k + 1, same, now)

\* others = InfoModelArray(other.<phase>), then the two loops
Loops(phase, st, same, now) ==
    Leftovers(phase,
              Loop(phase,
                   [st EXCEPT !.others =
                       [k \in 1..Len(Items(IF same THEN st.nw ELSE st.old,
                                           phase)) |-> k]],
                   1, same, now),
              1, same, now)

PhaseOfSelf(phase, st, same, now) ==
    IF st.err = "" /\ Collection(st.nw, phase) # Unset
    THEN Loops(phase, st, same, now)
    ELSE st

\* if self.has(phase) and other.has(phase): ...
Phase(phase, st, same, now) ==
    IF /\ st.err = ""
       /\ Collection(st.nw, phase) # Unset
       /\ Collection(IF same THEN st.nw ELSE st.old, phase) # Unset
    THEN Loops(phase, st, same, now)
    ELSE st

\* if all([self_map, other_map]) and self_map != other_map: ...
MapChange(st, now, self_map, other_map) ==
    EmitIf(Truthy(self_map) /\ Truthy(other_map) /\ ~PyEq(self_map, other_map),
           [st EXCEPT !.cur = [ph |-> "server", i |-> 0, left |-> FALSE]],
           "server_map_changed", now,
           <<<<"old", Value(other_map)>>, <<"new", Value(self_map)>>>>)

\* The map-changed check.
ServerStep(st, same, now) ==
    IF st.err # "" THEN st
    ELSE MapChange(st, now, get(st.nw, st.nw.server, "map"),
                   get(IF same THEN st.nw ELSE st.old,
                       (IF same THEN st.nw ELSE st.old).server, "map"))

\* The fields of Events that compare_older fills, in declaration order.
KindOrder ==
    <<"player_join_server", "server_map_changed", "squad_created",
      "player_switch_team", "player_switch_squad", "squad_leader_change",
      "player_change_role", "objective_capture", "player_level_up",
      "player_score_update", "player_leave_server", "squad_disbanded">>

\* The fields of a node that merge walks (its pydantic fields).
Fields(n) == DOMAIN n \ {"t", "cls", "created"}

\* ModelTree.merge of node b into node a of the same class, for fields that
\* hold no nodes and no arrays: an Unset field of a takes b's value.
mergeNode(a, b) ==
    [f \in DOMAIN a |->
        IF f \in Fields(a) /\ b[f] # Unset /\ a[f] = Unset THEN b[f] ELSE a[f]]

mergeArrayAppend(h, res, other_val, j) ==
    [res EXCEPT !.items = @ \o other_val]

\* self_iter.merge(other_iter) for the member of self_val at pos
mergeAt(h, res, pos, other_iter) ==
    IF ~IsMutable(h, res.items[pos].cls) THEN [res EXCEPT !.err = "TypeError"]
    ELSE [res EXCEPT !.items[pos] = mergeNode(@, other_iter)]

\* "for other_iter in other_val" of merge on two event arrays of hopper h:
\* an event has no key fields, so the lookup _get(self_val, single=True,
\* ignore_unknown=True) passes the one filter single=True, which no event
\* has as an attribute and ignore_unknown skips: it returns the first
\* member of self_val whatever the event, or None when self_val is empty.
\* res is [items, err].
RECURSIVE mergeArray(_, _, _, _)
mergeArray(h, res, other_val, j) ==
    IF res.err # "" \/ j > Len(other_val) THEN res
    ELSE IF _get(res.items, TRUE, [single |-> TRUE]) = 0
        THEN mergeArray(h, res, other_val, j + 1)
    ELSE mergeArray(h,
             mergeAt(h, res, _get(res.items, TRUE, [single |-> TRUE]),
                     other_val[j]),
             other_val, j + 1)

OfKind(buf, kind) == LET Test(e) == e.cls = kind IN SelectSeq(buf, Test)

\* setattr(self, attr, ...) of merge for the events field kind, merged
\* being the outcome of the loop over two arrays
mergeField(st, kind, other_val, merged) ==
    IF other_val = <<>> THEN st
    ELSE IF st.nw.events[kind] = Unset
        THEN [st EXCEPT !.nw.events[kind] = Arr(other_val)]
    ELSE [st EXCEPT !.nw.events[kind] = Arr(merged.items),
                    !.err = merged.err]

\* self.events.merge(events), field by field from position f of KindOrder.
RECURSIVE mergeEvents(_, _)
mergeEvents(st, f) ==
    IF st.err # "" \/ f > Len(KindOrder) THEN st
    ELSE mergeEvents(
             mergeField(st, KindOrder[f], OfKind(st.buf, KindOrder[f]),
                        mergeArray(st.nw,
                                   [items |-> st.nw.events[KindOrder[f]].items,
                                    err |-> ""],
                                   OfKind(st.buf, KindOrder[f]), 1)),
             f + 1)

\* events = Events(self); old is other, the hopper self is compared with
\* (when other is self, nw stands for both and old is not read).
Start(self, other) ==
    [nw |-> self, old |-> other, others |-> <<>>, buf |-> <<>>, err |-> "",
     cur |-> [ph |-> "", i |-> 0, left |-> FALSE], src |-> <<>>,
     tr |-> [players |-> <<>>, squads |-> <<>>, teams |-> <<>>]]

\* self.events.merge(events)
Merge(st) ==
    IF st.err # "" THEN st
    ELSE IF ~IsMutable(st.nw, "Events") THEN Raise(st, "TypeError")
    ELSE mergeEvents(st, 1)

\* self.compare_older(other, now); same: other is self.  The result is the
\* running state the call ends in, by return or by exception.
compare_older(self, other, same, now) ==
    Merge(ServerStep(
        Phase("teams",
              Phase("squads",
                    Phase("players", Start(self, other), same, now),
                    same, now),
              same, now),
        same, now))

-----------------------------------------------------------------------------
(* Events.add *)

\* The kinds of the PrivateEventModel subclasses.
PrivateKinds == {"activation", "iteration", "deactivation"}

\* isinstance(event, EventModel), issubclass(event, EventModel): of the
\* classes modelled, the events are those of EventTypes.
IsEvent(event) == event.cls \in Kinds \cup PrivateKinds

NotPrivate(event) == FALSE

\* isinstance(event, PrivateEventModel), issubclass(event,
\* PrivateEventModel)
IsPrivate(event) == event.cls \in PrivateKinds

\* Events.add(event) on the buffer of hopper h.  isclass: the argument is
\* the class of event rather than event itself, which initialises the
\* kind's collection.  The result is [h, err].
EventsAdd(h, isclass, event) ==
    LET kind == event.cls
    IN  IF ~IsEvent(event) \/ IsPrivate(event)
        THEN [h |-> h, err |-> "ValueError"]
        \* self[etype] reads the field named after the kind
        ELSE IF kind \notin DOMAIN h.events
            THEN [h |-> h, err |-> "AttributeError"]
        ELSE IF h.events[kind] = Unset
            THEN IF "Events" \in frozen THEN [h |-> h, err |-> "TypeError"]
                 ELSE [h |-> [h EXCEPT !.events[kind] =
                                  Arr(IF isclass THEN <<>> ELSE <<event>>)],
                       err |-> ""]
        ELSE IF isclass THEN [h |-> h, err |-> ""]
        ELSE [h |-> [h EXCEPT !.events[kind].items = Append(@, event)],
              err |-> ""]

-----------------------------------------------------------------------------
(* Snapshots and operations *)

\* The longest collection of a snapshot.
MaxPlayers == 2
\* The number of compare_older calls on one snapshot.
MaxCalls == 2
\* The number of Events.add calls before the first compare_older.
MaxSeeds == 1

Seqs(U, n) == UNION {[1..k -> U] : k \in 0..n}

\* An array of at most MaxPlayers members of U.
Arrays(U) == {Arr(q) : q \in Seqs(U, MaxPlayers)}

Idle(n, o) ==
    [op |-> "init", n |-> 0, adds |-> 0, self |-> n, other |-> o, now |-> 1,
     seed |-> None, buf |-> <<>>, src |-> <<>>,
     tr |-> [players |-> <<>>, squads |-> <<>>, teams |-> <<>>], err |-> ""]

\* The older poll was taken at tick 0, the newer one at tick 1; nothing is
\* frozen and nothing has been called.
Polls(o, n) ==
    /\ older = o
    /\ newer = n
    /\ frozen = {}
    /\ call = Idle(n, o)

\* Players as a poll at tick c sees them: any key field may be unknown, but
\* not all of them (a collection member is identified by some key field).
KeyPlayers(c) ==
    {Player(S("A"), Unset, S("x"), c), Player(S("A"), Unset, S("y"), c),
     Player(Unset, Unset, S("x"), c), Player(S("A"), I(1), S("x"), c),
     Player(S("A"), I(2), S("x"), c),
     [Player(S("B"), Unset, S("y"), c) EXCEPT !.joined_at = D(0)]}

\* Two polls that differ in who is there and in which keys are known.
InitKeys ==
    \E op \in Arrays(KeyPlayers(0)), np \in Arrays(KeyPlayers(1)) :
        Polls([InfoHopper(0) EXCEPT !.players = op,
                                    !.server.state = S("in_progress")],
              [InfoHopper(1) EXCEPT !.players = np,
                                    !.server.state = S("in_progress")])

\* Players with a level and a role.
LevelPlayers(c) ==
    {[Player(S("A"), Unset, Unset, c) EXCEPT !.level = lr[1], !.role = lr[2]] :
        lr \in {<<Unset, Unset>>, <<I(1), S("rifleman")>>,
                <<I(2), S("rifleman")>>, <<I(3), S("medic")>>}}
    \cup {[Player(S("B"), Unset, Unset, c) EXCEPT !.level = I(1),
                                                  !.role = None]}

InitLevels ==
    \E op \in Arrays(LevelPlayers(0)), np \in Arrays(LevelPlayers(1)) :
        Polls([InfoHopper(0) EXCEPT !.players = op,
                                    !.server.state = S("in_progress")],
              [InfoHopper(1) EXCEPT !.players = np,
                                    !.server.state = S("in_progress")])

\* Polls of a server whose state is not always known.
States == {Unset, S("in_progress"), S("warmup")}

StatePlayers(c) ==
    {Player(S("A"), Unset, S("x"), c), Player(S("B"), Unset, S("y"), c)}

InitStates ==
    \E op \in Arrays(StatePlayers(0)), np \in Arrays(StatePlayers(1)),
       os \in States, ns \in States :
        Polls([InfoHopper(0) EXCEPT !.players = op, !.server.state = os],
              [InfoHopper(1) EXCEPT !.players = np, !.server.state = ns])

InitFields == InitLevels \/ InitStates

\* The two teams and the squads of a poll at tick c; a squad's team and
\* leader are Links.
TeamLink(id) == Link("teams", [id |-> I(id)], None)
SquadLink(id) == Link("squads", [id |-> I(id)], None)
PlayerLink(sid) == Link("players", [steamid |-> S(sid)], None)

BothTeams(c) ==
    Arr(<<[Team(I(1), S("allies"), c) EXCEPT !.score = I(c + 1)],
          [Team(I(2), S("axis"), c) EXCEPT !.score = I(1)]>>)

Able(c) ==
    [Squad(I(1), S("able"), TeamLink(1), c) EXCEPT !.leader = PlayerLink("A")]
Baker(c) == [Squad(I(2), S("baker"), TeamLink(2), c) EXCEPT !.leader = None]
Charlie(c) ==
    [Squad(I(1), S("charlie"), TeamLink(1), c) EXCEPT
        !.leader = PlayerLink("B")]

\* Players with a squad and a team.
LinkPlayers(c) ==
    {[Player(S("A"), Unset, Unset, c) EXCEPT !.squad = st[1], !.team = st[2]] :
        st \in {<<None, TeamLink(1)>>, <<SquadLink(1), TeamLink(1)>>,
                <<SquadLink(2), TeamLink(2)>>}}
    \cup {[Player(S("B"), Unset, Unset, c) EXCEPT !.squad = SquadLink(1),
                                                  !.team = TeamLink(1)]}

\* A poll with squads and teams, or with neither.
Grouped(h, squads, c) ==
    [h EXCEPT !.squads = squads,
              !.teams = IF squads = Unset THEN Unset ELSE BothTeams(c)]

InitLinks ==
    \E op \in Arrays(LinkPlayers(0)), np \in Arrays(LinkPlayers(1)),
       os \in {Arr(<<Able(0), Baker(0)>>), Arr(<<Charlie(0)>>)},
       ns \in {Arr(<<Able(1), Baker(1)>>), Unset} :
        Polls(Grouped([InfoHopper(0) EXCEPT
                          !.players = op,
                          !.server.state = S("in_progress")], os, 0),
              Grouped([InfoHopper(1) EXCEPT
                          !.players = np,
                          !.server.state = S("in_progress")], ns, 1))

\* Polls in which a collection or the map may not have been gathered.
PartialPlayers(c) ==
    {Unset, Arr(<<>>), Arr(<<Player(S("A"), Unset, Unset, c)>>),
     Arr(<<[Player(S("A"), Unset, Unset, c) EXCEPT !.joined_at = D(0)]>>),
     Arr(<<[Player(S("A"), Unset, Unset, c) EXCEPT
               !.squad = SquadLink(1), !.team = TeamLink(1),
               !.level = I(c + 1), !.role = S("medic")]>>)}

InitPartial ==
    \E op \in PartialPlayers(0), np \in PartialPlayers(1),
       os \in {Unset, Arr(<<Able(0), Baker(0)>>), Arr(<<Charlie(0)>>)},
       ns \in {Unset, Arr(<<Able(1), Baker(1)>>), Arr(<<Charlie(1)>>)},
       nm \in {Unset, S("carentan"), S("foy")} :
        Polls(Grouped([InfoHopper(0) EXCEPT
                          !.players = op,
                          !.server.map = S("carentan"),
                          !.server.state = S("in_progress")], os, 0),
              Grouped([InfoHopper(1) EXCEPT
                          !.players = np,
                          !.server.map = nm,
                          !.server.state = S("in_progress")], ns, 1))

InitGroups == InitLinks \/ InitPartial

\* Teams with a score; the team known by name only has score lo in the
\* older poll and hi in the newer one.
ScoreTeams(c, named) ==
    {[Team(I(1), S("allies"), c) EXCEPT !.score = sc] :
        sc \in {Unset, I(1), I(3)}}
    \cup {[Team(I(2), S("axis"), c) EXCEPT !.score = I(2)],
          [Team(Unset, S("allies"), c) EXCEPT !.score = I(named)]}

InitTeams ==
    \E ot \in Arrays(ScoreTeams(0, 1)), nt \in Arrays(ScoreTeams(1, 3)),
       st \in {<<S("in_progress"), S("in_progress")>>,
               <<S("in_progress"), S("warmup")>>,
               <<S("warmup"), S("in_progress")>>,
               <<S("warmup"), Unset>>} :
        Polls([InfoHopper(0) EXCEPT !.teams = ot, !.server.state = st[1]],
              [InfoHopper(1) EXCEPT !.teams = nt, !.server.state = st[2]])

\* Polls for a buffer that is seeded and diffed more than once.
EventPlayers(c) ==
    {[Player(S("A"), Unset, S("x"), c) EXCEPT !.level = I(c + 1)],
     Player(S("B"), Unset, S("y"), c)}

InitEvents ==
    \E op \in Arrays(EventPlayers(0)), np \in Arrays(EventPlayers(1)) :
        Polls([InfoHopper(0) EXCEPT !.players = op,
                                    !.server.state = S("in_progress")],
              [InfoHopper(1) EXCEPT !.players = np,
                                    !.server.state = S("in_progress")])

\* Two polls of a round in progress on different maps, each with players
\* in squads and teams.
InitOrder ==
    \E op \in Arrays(LinkPlayers(0)), np \in Arrays(LinkPlayers(1)),
       os \in {Arr(<<Able(0), Baker(0)>>), Arr(<<Charlie(0)>>)},
       ns \in {Arr(<<Able(1), Baker(1)>>), Arr(<<Baker(1)>>)} :
        Polls(Grouped([InfoHopper(0) EXCEPT
                          !.players = op,
                          !.server.map = S("carentan"),
                          !.server.state = S("in_progress")], os, 0),
              Grouped([InfoHopper(1) EXCEPT
                          !.players = np,
                          !.server.map = S("foy"),
                          !.server.state = S("in_progress")], ns, 1))

Done(r, op, self, other, now) ==
    [op |-> op, n |-> call.n + 1, adds |-> call.adds, self |-> self,
     other |-> other, now |-> now, seed |-> call.seed, buf |-> r.buf,
     src |-> r.src,
     tr |-> r.tr, err |-> r.err]

\* newer.compare_older(older), the diff of the poll cycle
CompareOlder ==
    /\ call.n = 0
    /\ \E r \in {compare_older(newer, older, FALSE, call.now + 1)} :
        /\ newer' = r.nw
        /\ older' = r.old
        /\ call' = Done(r, "compare_older", newer, older, call.now + 1)
    /\ UNCHANGED frozen

\* newer.compare_older(newer)
CompareSelf ==
    /\ call.n = 0
    /\ \E r \in {compare_older(newer, newer, TRUE, call.now + 1)} :
        /\ newer' = r.nw
        /\ call' = Done(r, "compare_self", newer, newer, call.now + 1)
    /\ UNCHANGED <<older, frozen>>

\* newer.compare_older(older) once more on the same snapshot
CompareAgain ==
    /\ 0 < call.n /\ call.n < MaxCalls
    /\ \E r \in {compare_older(newer, older, FALSE, call.now + 1)} :
        /\ newer' = r.nw
        /\ older' = r.old
        /\ call' = Done(r, "compare_older", newer, older, call.now + 1)
    /\ UNCHANGED frozen

\* The events and event classes a collector seeds the buffer with; a class
\* is given by an event of its kind.
SeedKinds == {"player_join_server", "player_level_up"}

\* An event of a private kind: it declares no field of its own.
PrivateEvent(kind, event_time) ==
    [t |-> "Node", cls |-> kind, event_time |-> D(event_time),
     created |-> event_time]

Seeds ==
    {[isclass |-> c,
      event |-> [EventModel(k, 1) EXCEPT !.player = PlayerLink("C")]] :
        c \in BOOLEAN, k \in SeedKinds}
    \cup {[isclass |-> c, event |-> PrivateEvent(k, 1)] :
            c \in BOOLEAN, k \in PrivateKinds}

\* newer.events.add(seed) before the first diff
Seed ==
    /\ call.n = 0 /\ call.adds < MaxSeeds
    /\ \E seed \in Seeds :
        LET r == EventsAdd(newer, seed.isclass, seed.event)
        IN  /\ newer' = r.h
            /\ call' = [call EXCEPT !.op = "events_add", !.adds = @ + 1,
                                    !.self = newer, !.seed = seed,
                                    !.err = r.err]
    /\ UNCHANGED <<older, frozen>>

\* The number of polls that follow the first two.
MaxPolls == 1

\* Players as a poll at tick c reports them: joined_at is left to the
\* diff, or comes with the poll.
ChainPlayers(c) ==
    {Player(S("A"), Unset, S("x"), c),
     [Player(S("B"), Unset, S("y"), c) EXCEPT !.joined_at = D(c + 20)]}

\* A poll at tick c with the given players.
Polled(players, c) ==
    [InfoHopper(c) EXCEPT !.players = players,
                          !.server.state = S("in_progress")]

\* The first two polls of a chain; hist is to hold, for every cycle that a
\* later poll followed, the two snapshots as the cycle's diff was given
\* them and the matches it made.
InitChain ==
    \E op \in Arrays(ChainPlayers(0)), np \in Arrays(ChainPlayers(1)) :
        /\ older = Polled(op, 0)
        /\ newer = Polled(np, 1)
        /\ frozen = {}
        /\ call = Idle(newer, older) @@ [hist |-> <<>>]

\* newer.compare_older(older), the diff of one cycle of the chain
CompareCycle ==
    /\ call.op \in {"init", "poll"}
    /\ \E r \in {compare_older(newer, older, FALSE, call.now + 1)} :
        /\ newer' = r.nw
        /\ older' = r.old
        /\ call' = Done(r, "compare_older", newer, older, call.now + 1)
                        @@ [hist |-> call.hist]
    /\ UNCHANGED frozen

\* The next cycle: the snapshot just diffed becomes the older one and a
\* new poll the newer one.
PollNext ==
    /\ call.op = "compare_older" /\ call.err = ""
    /\ Len(call.hist) < MaxPolls
    /\ \E np \in Arrays(ChainPlayers(call.now + 1)) :
        /\ older' = newer
        /\ newer' = Polled(np, call.now + 1)
        /\ call' = [call EXCEPT
                        !.op = "poll", !.now = @ + 1,
                        !.hist = Append(@, [self |-> call.self,
                                            other |-> call.other,
                                            tr |-> call.tr.players])]
    /\ UNCHANGED frozen

NextChain == CompareCycle \/ PollNext

Next == CompareOlder \/ CompareSelf

NextEvents == Seed \/ CompareOlder \/ CompareSelf \/ CompareAgain

SpecKeys == InitKeys /\ [][Next]_vars
SpecFields == InitFields /\ [][Next]_vars
SpecGroups == InitGroups /\ [][Next]_vars
SpecTeams == InitTeams /\ [][Next]_vars
SpecEvents == InitEvents /\ [][NextEvents]_vars
SpecOrder == InitOrder /\ [][Next]_vars
SpecChain == InitChain /\ [][NextChain]_vars

-----------------------------------------------------------------------------
(* Authorization policies (src/secpol) *)

(* A policy is a record [t |-> "Policy", cls, scopes, policies]: its class, *)
(* the scopes of a Requires and the sub-policies of an AllOf or OneOf.     *)
(* A request is [authenticated, scopes]: request.user.is_authenticated and *)
(* request.auth.scopes.  The route, its endpoint and the request under way *)
(* are kept in call; the snapshots play no part.                           *)

Policy(cls, scopes, policies) ==
    [t |-> "Policy", cls |-> cls, scopes |-> scopes, policies |-> policies]

Allow == Policy("Allow", <<>>, <<>>)
Disallow == Policy("Disallow", <<>>, <<>>)
Authenticated == Policy("Authenticated", <<>>, <<>>)
Requires(scopes) == Policy("Requires", scopes, <<>>)
AllOf(policies) == Policy("AllOf", <<>>, policies)
OneOf(policies) == Policy("OneOf", <<>>, policies)

PolicyCheckResult(allowed, failure_reason) ==
    [allowed |-> allowed, failure_reason |-> failure_reason]

\* Requires.check: the first scope that the request lacks fails the check.
RequiresCheck(request, scopes) ==
    IF \A j \in DOMAIN scopes : scopes[j] \in request.scopes
    THEN PolicyCheckResult(TRUE, None)
    ELSE PolicyCheckResult(FALSE,
             S("Scope "
               \o scopes[Min({j \in DOMAIN scopes :
                                 scopes[j] \notin request.scopes})]
               \o " not present"))

\* AllOf.check over the results of the sub-policies, in order.
AllOfCheck(policies, results) ==
    IF \A j \in DOMAIN results : results[j].allowed
    THEN PolicyCheckResult(TRUE, None)
    ELSE PolicyCheckResult(FALSE,
             S("Policy authorization rejected by sub-policy "
               \o policies[Min({j \in DOMAIN results :
                                   ~results[j].allowed})].cls))

\* OneOf.check over the results of the sub-policies.
OneOfCheck(results) ==
    IF \E j \in DOMAIN results : results[j].allowed
    THEN PolicyCheckResult(TRUE, None)
    ELSE PolicyCheckResult(FALSE, S("Not authorized by any sub-policy"))

\* Disallow.check
DisallowCheck(request) ==
    PolicyCheckResult(TRUE, S("Policy disallows authorization"))

\* do_policy_check(request, policy): policy.check(request), awaited when
\* it is a coroutine function.
RECURSIVE do_policy_check(_, _)
do_policy_check(request, policy) ==
    CASE policy.cls = "Allow" -> PolicyCheckResult(TRUE, None)
      [] policy.cls = "Disallow" -> DisallowCheck(request)
      [] policy.cls = "Authenticated" ->
            PolicyCheckResult(request.authenticated,
                              S("User not authenticated"))
      [] policy.cls = "Requires" -> RequiresCheck(request, policy.scopes)
      [] policy.cls = "AllOf" ->
            AllOfCheck(policy.policies,
                       [j \in DOMAIN policy.policies |->
                           do_policy_check(request, policy.policies[j])])
      [] OTHER ->
            OneOfCheck([j \in DOMAIN policy.policies |->
                           do_policy_check(request, policy.policies[j])])

\* getattr(self.dependant.call, POLICY_ATTRIBUTE_NAME, Allow())
PolicyOf(endpoint) == IF endpoint = None THEN Allow ELSE endpoint

\* SecureRoute._invoke_policy_check with the result of the check: the
\* exception raised, "" for none, and its message.
Authorize(result) ==
    IF ~result.allowed
    THEN [err |-> "PolicyAuthorizationError",
          reason |-> PyOr(result.failure_reason,
                          S("Not authorized by policy"))]
    ELSE [err |-> "", reason |-> None]

\* custom_route_handler(request) of a route to endpoint: the policy check,
\* then the original handler unless the check raised.
custom_route_handler(endpoint, request) ==
    [policy |-> PolicyOf(endpoint),
     result |-> do_policy_check(request, PolicyOf(endpoint)),
     outcome |-> Authorize(do_policy_check(request, PolicyOf(endpoint)))]

\* The policies without sub-policies.
Simple ==
    {Allow, Disallow, Authenticated, Requires(<<>>), Requires(<<"read">>),
     Requires(<<"read", "write">>)}

\* The policies an endpoint is decorated with.
Policies ==
    Simple \cup {AllOf(q) : q \in Seqs(Simple, 2)}
           \cup {OneOf(q) : q \in Seqs(Simple, 2)}

Requests ==
    [authenticated : BOOLEAN, scopes : SUBSET {"read", "write"}]

\* A route to an endpoint without a policy, and a request on its way.
InitPolicy ==
    /\ newer = InfoHopper(1)
    /\ older = InfoHopper(0)
    /\ frozen = {}
    /\ \E request \in Requests :
        call = [op |-> "init", endpoint |-> None, request |-> request,
                policy |-> None, result |-> None, reason |-> None,
                handled |-> FALSE, err |-> ""]

\* @authz_policy(policy) on the endpoint
AuthzPolicy ==
    /\ call.op = "init"
    /\ \E policy \in Policies :
        call' = [call EXCEPT !.op = "authz_policy", !.endpoint = policy]
    /\ UNCHANGED <<newer, older, frozen>>

\* The route handles the request.
RouteHandler ==
    /\ call.op \in {"init", "authz_policy"}
    /\ \E r \in {custom_route_handler(call.endpoint, call.request)} :
        call' = [call EXCEPT !.op = "request", !.policy = r.policy,
                             !.result = r.result, !.err = r.outcome.err,
                             !.reason = r.outcome.reason,
                             !.handled = r.outcome.err = ""]
    /\ UNCHANGED <<newer, older, frozen>>

NextPolicy == AuthzPolicy \/ RouteHandler

SpecPolicy == InitPolicy /\ [][NextPolicy]_vars

-----------------------------------------------------------------------------
(* Properties of compare_older *)

\* The last operation was a compare_older call of either form.
Compared == call.op \in {"compare_older", "compare_self"}

\* The hopper that stood for the older snapshot in the last call.
Before == IF call.op = "compare_self" THEN call.self ELSE call.other

BothHave(path) ==
    Collection(call.self, path) # Unset /\ Collection(Before, path) # Unset

\* Positions in the buffer of the events of a kind that the iteration over
\* member i added (left: of the leftover loop, i being the older position).
EventsOf(ph, i, left, kind) ==
    {j \in 1..Len(call.buf) :
        /\ call.src[j] = [ph |-> ph, i |-> i, left |-> left]
        /\ call.buf[j].cls = kind}

KindsIn(buf) == {buf[j].cls : j \in 1..Len(buf)}

\* A collection of the event buffer holds no event.
NoEvents(coll) == coll = Unset \/ coll.items = <<>>

\* The key fields of node n that hold a plain value.
SetKeys(n, keys) == {k \in keys : n[k] # Unset /\ n[k].t # "Link"}

\* link refers to node n of the collection at path by its plain key values;
\* to no node by None.
RefersTo(link, n, path, keys) ==
    IF n = None THEN link = None
    ELSE /\ link.t = "Link"
         /\ link.path = path
         /\ DOMAIN link.values = SetKeys(n, keys)
         /\ \A k \in SetKeys(n, keys) : link.values[k] = n[k]

\* C1: comparing a mutable snapshot whose event buffer is empty with
\* itself derives no event and leaves every collection of its event buffer
\* unset or empty, whatever players, squads, teams and server it holds.
C1_SelfCompareEmitsNothing ==
    (call.op = "compare_self" /\ \A k \in Kinds : NoEvents(call.self.events[k]))
        => /\ call.err = ""
           /\ call.buf = <<>>
           /\ \A k \in Kinds : NoEvents(newer.events[k])

C1_Witness ==
    /\ call.op = "compare_self"
    /\ call.self.players # Unset /\ Len(call.self.players.items) = 2
    /\ call.self.squads # Unset /\ Len(call.self.squads.items) = 2
    /\ call.self.teams # Unset
    /\ \E i \in 1..2 : call.self.players.items[i].squad.t = "Link"
    /\ Len(call.tr.players) = 2 /\ Len(call.tr.squads) = 2

\* Two resolved squads or teams are the same entity: both none, or no key
\* field that both have set differs.
SameEntity(a, b, keys) ==
    IF a = None \/ b = None THEN a = b
    ELSE \A k \in keys :
            (a[k] # Unset /\ b[k] # Unset) =>
                IF a[k].t = "Link" /\ b[k].t = "Link"
                THEN a[k].values = b[k].values
                ELSE a[k] = b[k]

\* The switch events of a kind for newer player i: one exactly when the
\* player's resolved entity differs from the matched older player's, then
\* with old and new referring to the two entities.
SwitchRule(i, field, path, keys, kind) ==
    LET p == call.self.players.items[i]
        m == call.tr.players[i].m
        mine == get(call.self, p, field)
        theirs == IF m = 0 THEN None
                  ELSE get(call.other, call.other.players.items[m], field)
        ev == EventsOf("players", i, FALSE, kind)
    IN  /\ Cardinality(ev) = IF SameEntity(mine, theirs, keys) THEN 0 ELSE 1
        /\ \A j \in ev :
            /\ RefersTo(call.buf[j].player, p, "players",
                        {"steamid", "id", "name"})
            /\ RefersTo(call.buf[j].old, theirs, path, keys)
            /\ RefersTo(call.buf[j].new, mine, path, keys)

\* C7: for every newer player a squad-switch event is derived exactly when
\* the player's resolved squad differs from the matched older player's (none
\* when unmatched), with old and new referring to the older and the newer
\* squad; likewise for the team and the team-switch event.
C7_SwitchIffEntityDiffers ==
    (call.op = "compare_older" /\ BothHave("players"))
        => /\ Len(call.tr.players) = Len(call.self.players.items)
           /\ \A i \in 1..Len(call.self.players.items) :
                /\ SwitchRule(i, "squad", "squads", {"id", "name", "team"},
                              "player_switch_squad")
                /\ SwitchRule(i, "team", "teams", {"id", "name"},
                              "player_switch_team")

\* A matched player whose squad changed and whose team did not, next to one
\* that kept both.
C7_Witness ==
    /\ call.op = "compare_older" /\ BothHave("players")
    /\ \E i \in 1..Len(call.tr.players) :
        /\ call.tr.players[i].m # 0
        /\ EventsOf("players", i, FALSE, "player_switch_squad") # {}
        /\ EventsOf("players", i, FALSE, "player_switch_team") = {}
        /\ get(call.self, call.self.players.items[i], "squad") # None
    /\ \E i \in 1..Len(call.tr.players) :
        /\ call.tr.players[i].m # 0
        /\ get(call.self, call.self.players.items[i], "squad") # None
        /\ EventsOf("players", i, FALSE, "player_switch_squad") = {}

\* C10: with the players collection unset in either snapshot no
\* player-derived event is emitted and no newer player changes, while the
\* squad and team phases run when both snapshots have the collection and
\* the map check runs on the two maps.
C10_PlayerPhaseSkipped ==
    (Compared /\ ~BothHave("players"))
        => /\ call.err = ""
           /\ KindsIn(call.buf) \cap PlayerKinds = {}
           /\ \A k \in PlayerKinds : newer.events[k] = call.self.events[k]
           /\ newer.players = call.self.players
           /\ call.tr.players = <<>>
           /\ BothHave("squads") =>
                /\ Len(call.tr.squads) = Len(call.self.squads.items)
                /\ \A i \in 1..Len(newer.squads.items) :
                    /\ newer.squads.items[i].created_at # Unset
                    /\ (call.tr.squads[i].m = 0) =
                        (EventsOf("squads", i, FALSE, "squad_created") # {})
           /\ BothHave("teams") =>
                /\ Len(call.tr.teams) = Len(call.self.teams.items)
                /\ \A i \in 1..Len(newer.teams.items) :
                    newer.teams.items[i].created_at # Unset
           /\ ("server_map_changed" \in KindsIn(call.buf)) =
                (/\ Truthy(call.self.server.map)
                 /\ Truthy(Before.server.map)
                 /\ call.self.server.map # Before.server.map)

\* The newer snapshot has players but the older one has none gathered; a
\* squad was created and the map changed.
C10_Witness ==
    /\ call.op = "compare_older"
    /\ call.self.players # Unset /\ call.self.players.items # <<>>
    /\ call.other.players = Unset
    /\ "squad_created" \in KindsIn(call.buf)
    /\ "server_map_changed" \in KindsIn(call.buf)
    /\ newer.events["squad_created"] # Unset

PlayerKeys == {"steamid", "id", "name"}

NewerPlayer(i) == call.self.players.items[i]
OlderPlayer(k) == call.other.players.items[k]
NewerCount == Len(call.self.players.items)
OlderCount == Len(call.other.players.items)

\* The last operation diffed two snapshots that both have players, and
\* visited every newer player.
DiffedPlayers ==
    /\ call.op = "compare_older"
    /\ BothHave("players")
    /\ Len(call.tr.players) = NewerCount

Joins(i) == EventsOf("players", i, FALSE, "player_join_server")
Leaves(k) == EventsOf("players", k, TRUE, "player_leave_server")
ScoreUpdates(k) == EventsOf("players", k, TRUE, "player_score_update")

\* C2: every newer player without a match gets exactly one join event,
\* whose link refers to the player and which ends up in the snapshot's
\* event buffer; a joined_at that was unset becomes the player's
\* construction time.
C2_JoinForUnmatched ==
    (call.op = "compare_older" /\ BothHave("players"))
        => /\ DiffedPlayers
           /\ \A i \in 1..NewerCount :
                call.tr.players[i].m = 0 =>
                    /\ Cardinality(Joins(i)) = 1
                    /\ \A j \in Joins(i) :
                        /\ RefersTo(call.buf[j].player, NewerPlayer(i),
                                    "players", PlayerKeys)
                        /\ newer.events["player_join_server"] # Unset
                        /\ call.buf[j] \in
                            Range(newer.events["player_join_server"].items)
                    /\ newer.players.items[i].joined_at =
                        IF NewerPlayer(i).joined_at = Unset
                        THEN D(NewerPlayer(i).created)
                        ELSE NewerPlayer(i).joined_at

\* Two players joined, one of them with joined_at already known.
C2_Witness ==
    /\ DiffedPlayers
    /\ NewerCount = 2 /\ OlderCount > 0
    /\ \A i \in 1..2 : call.tr.players[i].m = 0 /\ Joins(i) # {}
    /\ NewerPlayer(1).joined_at = Unset
    /\ NewerPlayer(2).joined_at # Unset

\* Every key field set in p has the same value in o.
Agree(p, o) == \A k \in PlayerKeys : p[k] # Unset => o[k] = p[k]

\* Every key field set in o has the same value in p.
Fits(p, o) == \A k \in PlayerKeys : o[k] # Unset => p[k] = o[k]

\* What Player.__hash__ hashes.
HashOf(o) == IF o.steamid # Unset THEN o.steamid ELSE o.name

\* The older positions no earlier newer player took out of the working
\* copy.
Remaining(i) ==
    (1..OlderCount) \ {call.tr.players[j].r : j \in 1..(i - 1)}

\* C4 as claimed: a newer player and the one older player that agrees with
\* it on every key the newer player has set (no other newer player agreeing
\* with that older one) are matched: no join for the one, no leave for the
\* other.
C4_MatchedOnOwnKeys ==
    DiffedPlayers =>
        \A i \in 1..NewerCount : \A k \in 1..OlderCount :
            (/\ Agree(NewerPlayer(i), OlderPlayer(k))
             /\ \A k2 \in 1..OlderCount :
                    k2 # k => ~Agree(NewerPlayer(i), OlderPlayer(k2))
             /\ \A i2 \in 1..NewerCount :
                    i2 # i => ~Agree(NewerPlayer(i2), OlderPlayer(k)))
                => Joins(i) = {} /\ Leaves(k) = {}

\* C4: a newer player p is matched to the first older player o still in
\* the working copy such that every key field set in o has the same value
\* in p (key fields unset in o are ignored, a key field unset in p and set
\* in o prevents the match).  Matched, p gets no join event and the entry
\* taken out of the working copy gets no leave event: that entry is o,
\* unless an earlier remaining older player hashes like o.  Without such an
\* o, p is unmatched and gets a join event.
C4_MatchedOnOlderKeys ==
    DiffedPlayers =>
        \A i \in 1..NewerCount :
            LET fit == {k \in Remaining(i) :
                           Fits(NewerPlayer(i), OlderPlayer(k))}
                m == call.tr.players[i].m
                r == call.tr.players[i].r
            IN  IF fit = {}
                THEN m = 0 /\ r = 0 /\ Cardinality(Joins(i)) = 1
                ELSE /\ m \in fit /\ \A k \in fit : m <= k
                     /\ Joins(i) = {}
                     /\ r \in Remaining(i)
                     /\ HashOf(OlderPlayer(r)) = HashOf(OlderPlayer(m))
                     /\ \A k \in Remaining(i) :
                            (k = m \/ HashOf(OlderPlayer(k)) =
                                      HashOf(OlderPlayer(m))) => r <= k
                     /\ Leaves(r) = {}

\* A newer player matched although the older one lacks a key the newer one
\* has, next to one unmatched because it lacks a key the older one has.
C4_Witness ==
    /\ DiffedPlayers
    /\ \E i \in 1..NewerCount :
        LET m == call.tr.players[i].m
        IN  /\ m # 0 /\ call.tr.players[i].r = m
            /\ \E k \in PlayerKeys :
                NewerPlayer(i)[k] # Unset /\ OlderPlayer(m)[k] = Unset
            /\ Joins(i) = {} /\ Leaves(m) = {}
    /\ \E i \in 1..NewerCount : \E k \in 1..OlderCount :
        /\ call.tr.players[i].m = 0
        /\ Agree(NewerPlayer(i), OlderPlayer(k))
        /\ Joins(i) # {} /\ Leaves(k) # {}

\* C5 as claimed: a newer and an older player with the same steamid, the
\* only ones with it in their snapshots, are matched whatever their id and
\* name: no join for the one, no leave for the other.
C5_SameSteamidMatched ==
    DiffedPlayers =>
        \A i \in 1..NewerCount : \A k \in 1..OlderCount :
            (/\ NewerPlayer(i).steamid # Unset
             /\ OlderPlayer(k).steamid = NewerPlayer(i).steamid
             /\ \A k2 \in 1..OlderCount :
                    k2 # k => OlderPlayer(k2).steamid # NewerPlayer(i).steamid
             /\ \A i2 \in 1..NewerCount :
                    i2 # i => NewerPlayer(i2).steamid # NewerPlayer(i).steamid)
                => Joins(i) = {} /\ Leaves(k) = {}

\* C5: identity is decided by all key fields together.  A newer player is
\* never matched to an older player that holds a different value in some
\* key field - also when their steamids are equal - and a snapshot pair of
\* one such newer and one such older player yields a join event for the one
\* and a leave event for the other.
C5_MatchNeedsEveryOlderKey ==
    DiffedPlayers =>
        /\ \A i \in 1..NewerCount : \A k \in 1..OlderCount :
            (\E f \in PlayerKeys :
                /\ OlderPlayer(k)[f] # Unset
                /\ OlderPlayer(k)[f] # NewerPlayer(i)[f])
                => call.tr.players[i].m # k
        /\ (/\ NewerCount = 1 /\ OlderCount = 1
            /\ \E f \in PlayerKeys :
                /\ OlderPlayer(1)[f] # Unset
                /\ OlderPlayer(1)[f] # NewerPlayer(1)[f])
                => Cardinality(Joins(1)) = 1 /\ Cardinality(Leaves(1)) = 1

\* One newer and one older player with the same steamid and different
\* names: a join and a leave.
C5_Witness ==
    /\ DiffedPlayers
    /\ NewerCount = 1 /\ OlderCount = 1
    /\ NewerPlayer(1).steamid # Unset
    /\ NewerPlayer(1).steamid = OlderPlayer(1).steamid
    /\ NewerPlayer(1).name # OlderPlayer(1).name
    /\ Joins(1) # {} /\ Leaves(1) # {}

\* The older positions that no newer player was matched to.
Unmatched == (1..OlderCount) \ {call.tr.players[i].m : i \in 1..NewerCount}

\* C3: every older player without a match in the newer snapshot gets
\* exactly one leave event whatever the older server state is, unset
\* included, and a score-update event exactly when that state is
\* "in_progress".
C3_LeaveWhateverState ==
    DiffedPlayers =>
        \A k \in Unmatched :
            /\ Cardinality(Leaves(k)) = 1
            /\ Cardinality(ScoreUpdates(k)) =
                IF call.other.server.state = S("in_progress") THEN 1 ELSE 0

\* The same with a known older server state: the claim fails on nothing
\* but the unset state.
C3_LeaveOnKnownState ==
    (DiffedPlayers /\ call.other.server.state # Unset) =>
        /\ call.err = ""
        /\ \A k \in Unmatched :
            /\ Cardinality(Leaves(k)) = 1
            /\ Cardinality(ScoreUpdates(k)) =
                IF call.other.server.state = S("in_progress") THEN 1 ELSE 0

\* With the older state unset a player that left ends the call in an
\* AttributeError and no leave event.
C3_RaisesOnUnsetState ==
    (DiffedPlayers /\ call.other.server.state = Unset /\ Unmatched # {}) =>
        /\ call.err = "AttributeError"
        /\ \A k \in 1..OlderCount : Leaves(k) = {}
        /\ newer.events = call.self.events

LevelUps(i) == EventsOf("players", i, FALSE, "player_level_up")

\* C6: a matched newer player gets a level-up event, carrying the older
\* and the newer level, exactly when both levels are known, the newer one
\* is greater and it is not a jump of more than one from level 1.
C6_LevelUpRule ==
    DiffedPlayers =>
        \A i \in 1..NewerCount :
            LET m == call.tr.players[i].m
                new == NewerPlayer(i).level
                old == OlderPlayer(m).level
            IN  IF m = 0 THEN LevelUps(i) = {}
                ELSE /\ Cardinality(LevelUps(i)) =
                        IF /\ new # Unset /\ old # Unset
                           /\ new.v > old.v
                           /\ ~(old.v = 1 /\ new.v - old.v > 1)
                        THEN 1 ELSE 0
                     /\ \A j \in LevelUps(i) :
                            /\ call.buf[j].old = old
                            /\ call.buf[j].new = new
                            /\ RefersTo(call.buf[j].player, NewerPlayer(i),
                                        "players", PlayerKeys)

\* A level-up from 2 to 3, and a jump from 1 to 3 that is none.
C6_Witness ==
    /\ DiffedPlayers /\ NewerCount = 2
    /\ call.tr.players[1].m # 0 /\ call.tr.players[2].m # 0
    /\ OlderPlayer(call.tr.players[1].m).level = I(2)
    /\ NewerPlayer(1).level = I(3) /\ LevelUps(1) # {}
    /\ OlderPlayer(call.tr.players[2].m).level = I(1)
    /\ NewerPlayer(2).level = I(3) /\ LevelUps(2) = {}

NewerTeam(i) == call.self.teams.items[i]
OlderTeam(k) == call.other.teams.items[k]

\* The last operation diffed two snapshots that both have teams.
DiffedTeams == call.op = "compare_older" /\ BothHave("teams")

Captures(i) == EventsOf("teams", i, FALSE, "objective_capture")

\* Both scores are known and the newer one is greater.
ScoreRose(new, old) ==
    new.score # Unset /\ old.score # Unset /\ new.score.v > old.score.v

\* C8 as claimed: a newer team matched to an older team gets an
\* objective-capture event exactly when both scores are known, the older
\* snapshot's server state is not "warmup" and the newer score is greater.
C8_CaptureUnlessOlderWarmup ==
    DiffedTeams =>
        \A i \in 1..Len(call.tr.teams) :
            LET m == call.tr.teams[i].m
            IN  m # 0 =>
                    Cardinality(Captures(i)) =
                        IF /\ ScoreRose(NewerTeam(i), OlderTeam(m))
                           /\ call.other.server.state # S("warmup")
                        THEN 1 ELSE 0

\* C8: a newer team that the call reaches and matches to an older team gets
\* an objective-capture event, referring to the team, exactly when both
\* scores are known, the newer snapshot's server state is not "warmup"
\* (unset counts as not warmup), the newer score is greater and the team's
\* id is known; with the id unknown the call ends in an AttributeError at
\* that team instead.
C8_CaptureUnlessNewerWarmup ==
    DiffedTeams =>
        \A i \in 1..Len(call.tr.teams) :
            LET m == call.tr.teams[i].m
                due == /\ ScoreRose(NewerTeam(i), OlderTeam(m))
                       /\ call.self.server.state # S("warmup")
            IN  m # 0 =>
                    /\ Cardinality(Captures(i)) =
                        IF due /\ NewerTeam(i).id # Unset THEN 1 ELSE 0
                    /\ \A j \in Captures(i) :
                        RefersTo(call.buf[j].team, NewerTeam(i), "teams",
                                 {"id", "name"})
                    /\ (due /\ NewerTeam(i).id = Unset) =>
                        /\ call.err = "AttributeError"
                        /\ i = Len(call.tr.teams)

\* A score that rose in a round in progress that was polled in warmup
\* before is a capture; one that rose into a warmup is none.
C8_Witness ==
    /\ DiffedTeams /\ call.err = ""
    /\ \E i \in 1..Len(call.tr.teams) :
        /\ call.tr.teams[i].m # 0
        /\ ScoreRose(NewerTeam(i), OlderTeam(call.tr.teams[i].m))
        /\ call.other.server.state = S("warmup")
        /\ call.self.server.state = S("in_progress")
        /\ Captures(i) # {}

C8_WitnessWarmup ==
    /\ DiffedTeams /\ call.err = ""
    /\ \E i \in 1..Len(call.tr.teams) :
        /\ call.tr.teams[i].m # 0
        /\ ScoreRose(NewerTeam(i), OlderTeam(call.tr.teams[i].m))
        /\ call.other.server.state = S("in_progress")
        /\ call.self.server.state = S("warmup")
        /\ Captures(i) = {}

\* The fields an event carries.
EventFields == {"event_time", "player", "squad", "team", "old", "new", "score"}

\* The events of a kind that the last call derived, in order.
Derived(kind) == LET IsKind(e) == e.cls = kind IN SelectSeq(call.buf, IsKind)

\* The first value that the events of seq hold in field f, Unset for none.
FirstSet(seq, f) ==
    IF \A j \in 1..Len(seq) : seq[j][f] = Unset THEN Unset
    ELSE seq[CHOOSE j \in 1..Len(seq) :
                /\ seq[j][f] # Unset
                /\ \A j2 \in 1..(j - 1) : seq[j2][f] = Unset][f]

\* C9 as claimed: after a call every derived event is in the snapshot's
\* event buffer and every event that was there before is still there
\* unchanged, also for a kind that held events or an empty collection.
C9_MergeIsAdditive ==
    (Compared /\ call.err = "") =>
        /\ \A j \in 1..Len(call.buf) :
            /\ newer.events[call.buf[j].cls] # Unset
            /\ call.buf[j] \in Range(newer.events[call.buf[j].cls].items)
        /\ \A kind \in Kinds :
            call.self.events[kind] # Unset =>
                /\ newer.events[kind] # Unset
                /\ Range(call.self.events[kind].items)
                    \subseteq Range(newer.events[kind].items)

\* C9: a call stores its derived events of a kind only when the kind's
\* collection in the snapshot's event buffer was unset before the call.  A
\* collection that was initialised, empty or not, keeps its members and
\* gets none of the derived events; its first member takes, for each of
\* its unset fields, the first value the derived events of the kind hold,
\* and every other field of every member is unchanged.
C9_MergeKeepsInitialisedKinds ==
    (Compared /\ call.err = "") =>
        \A kind \in Kinds :
            LET pre == call.self.events[kind]
                post == newer.events[kind]
                got == Derived(kind)
            IN  IF pre = Unset
                THEN post = IF got = <<>> THEN Unset ELSE Arr(got)
                ELSE /\ post # Unset
                     /\ Len(post.items) = Len(pre.items)
                     /\ \A e \in 1..Len(pre.items) :
                        /\ post.items[e].cls = kind
                        /\ \A f \in EventFields :
                            post.items[e][f] =
                                IF e = 1 /\ pre.items[e][f] = Unset
                                THEN FirstSet(got, f)
                                ELSE pre.items[e][f]

\* A seeded level-up event whose old and new levels were unset took them
\* from a derived level-up event, which the buffer does not hold.
C9_Witness ==
    /\ Compared /\ call.err = ""
    /\ LET pre == call.self.events["player_level_up"]
           post == newer.events["player_level_up"]
       IN  /\ pre # Unset /\ Len(pre.items) = 1 /\ pre.items[1].old = Unset
           /\ Derived("player_level_up") # <<>>
           /\ Len(post.items) = 1 /\ post.items[1].old # Unset

\* A second call derived join events again and stored none of them.
C9_WitnessAgain ==
    /\ call.op = "compare_older" /\ call.n = 2 /\ call.err = ""
    /\ Derived("player_join_server") # <<>>
    /\ call.self.events["player_join_server"] # Unset
    /\ newer.events["player_join_server"] =
        call.self.events["player_join_server"]

-----------------------------------------------------------------------------
(* The frame of compare_older *)

\* The field of a member of a collection that compare_older backfills.
StampField(path) == IF path = "players" THEN "joined_at" ELSE "created_at"

\* C11: a compare_older call on a snapshot other than the newer one itself
\* leaves that older snapshot as it was: its collections with their members
\* in order, every field of its players, squads, teams and server, and its
\* event buffer.
C11_OlderUnchanged ==
    call.op = "compare_older" => older = call.other

C11_Witness ==
    /\ call.op = "compare_older" /\ call.err = ""
    /\ older = call.other
    /\ older.players # Unset /\ older.squads # Unset /\ older.teams # Unset
    /\ Len(older.players.items) = 2 /\ Len(call.tr.players) = 2
    /\ \E i \in 1..2 : /\ call.tr.players[i].m # 0
                       /\ newer.players.items[i] # call.self.players.items[i]
    /\ \E j \in 1..Len(call.buf) : call.buf[j].cls = "player_leave_server"
    /\ \E j \in 1..Len(call.buf) : call.buf[j].cls = "squad_disbanded"

\* The value compare_older backfills into member i of the newer collection
\* at path: what the member's match carries, else the member's construction
\* time.
Stamp(path, i) ==
    LET m == call.tr[path][i].m
        carried == Items(Before, path)[m][StampField(path)]
    IN  IF m # 0 /\ Truthy(carried) THEN carried
        ELSE D(call.self[path].items[i].created)

\* Member i of the newer collection at path is as it was but for the
\* backfilled field: a value that was set stays, one that was not set is
\* backfilled when the call came to the member, at the latest when the call
\* returned.
OnlyStamped(path, i) ==
    LET was == call.self[path].items[i]
        now == newer[path].items[i]
        field == StampField(path)
    IN  /\ DOMAIN now = DOMAIN was
        /\ \A f \in DOMAIN was \ {field} : now[f] = was[f]
        /\ Truthy(was[field]) => now[field] = was[field]
        /\ i > Len(call.tr[path]) => now[field] = was[field]
        /\ (~Truthy(was[field]) /\ i <= Len(call.tr[path])) =>
               \/ now[field] = Stamp(path, i)
               \/ call.err # "" /\ now[field] = was[field]

\* C12 as stated: every field of every newer player, squad and team and of
\* the newer server has the same value after the call as before.
C12_OnlyEventsChange ==
    Compared =>
        /\ newer.server = call.self.server
        /\ \A path \in {"players", "squads", "teams"} :
               newer[path] = call.self[path]

\* C12: compare_older changes nothing in the newer snapshot except its
\* event buffer and the backfill: a player's joined_at and a squad's or
\* team's created_at that was not set is set, to the value its match in the
\* older snapshot carries, else to the node's construction time; every other
\* field of every newer player, squad and team and of the newer server, the
\* membership and the order of the collections are as before.
C12_OnlyEventsAndStampsChange ==
    Compared =>
        /\ newer.server = call.self.server
        /\ newer.solid = call.self.solid
        /\ \A path \in {"players", "squads", "teams"} :
               IF call.self[path] = Unset THEN newer[path] = Unset
               ELSE /\ newer[path] # Unset
                    /\ Len(newer[path].items) = Len(call.self[path].items)
                    /\ \A i \in 1..Len(newer[path].items) :
                           OnlyStamped(path, i)

C12_Witness ==
    /\ call.op = "compare_older" /\ call.err = ""
    /\ call.self.players # Unset /\ call.self.squads # Unset
    /\ Len(call.self.players.items) = 1
    /\ call.self.players.items[1].joined_at = Unset
    /\ call.other.players # Unset /\ Len(call.other.players.items) = 1
    /\ newer.players.items[1].joined_at = D(0)
    /\ \E i \in 1..Len(newer.squads.items) :
           /\ call.self.squads.items[i].created_at = Unset
           /\ newer.squads.items[i].created_at = D(1)
    /\ newer.teams.items[1].created_at = D(1)

\* A newer player whose joined_at was known keeps it.
C12_WitnessKept ==
    /\ call.op = "compare_older" /\ call.err = ""
    /\ call.self.players # Unset /\ Len(call.self.players.items) = 1
    /\ call.self.players.items[1].joined_at = D(0)
    /\ Len(call.tr.players) = 1
    /\ newer.players = call.self.players

-----------------------------------------------------------------------------
(* Mutability, assignment and ModelTree.merge on a tree *)

\* The classes a class derives from, itself included: PlayerTeamkillEvent
\* subclasses PlayerKillEvent, every other modelled class stands alone.
Bases(cls) ==
    IF cls = "player_teamkill" THEN {"player_teamkill", "player_kill"}
    ELSE {cls}

\* isinstance(n, cls)
IsInstance(n, cls) == cls \in Bases(n.cls)

\* ModelTree.flatten() of a hopper: the members of its arrays and the
\* models these hold by value (not through a Link).  The hopper has no
\* __links__, so its server and its event buffer are not yielded.
flatten(h) ==
    UNION {Range(Items(h, path))
           \cup UNION {{n[f] : f \in {g \in Fields(n) : n[g].t = "Node"}} :
                          n \in Range(Items(h, path))} :
              path \in {"players", "squads", "teams"}}

\* root.set_mutable(bool, force): when the flag differs or force is given,
\* every flattened model's class gets allow_mutation = False and the root's
\* __solid__ becomes bool.  fr is the set of frozen classes before.
set_mutable(h, fr, bool, force) ==
    IF h.solid # bool \/ force
    THEN [h |-> [h EXCEPT !.solid = bool],
          frozen |-> fr \cup {n.cls : n \in flatten(h)}]
    ELSE [h |-> h, frozen |-> fr]

\* The places of a tree: the root itself, its server, and the members of
\* its arrays.
Places(h) ==
    {[at |-> "root", i |-> 0], [at |-> "server", i |-> 0]}
    \cup UNION {{[at |-> path, i |-> i] : i \in 1..Len(Items(h, path))} :
                  path \in {"players", "squads", "teams"}}

ClassAt(h, p) ==
    CASE p.at = "root" -> "InfoHopper"
      [] p.at = "server" -> "Server"
      [] OTHER -> h[p.at].items[p.i].cls

\* setattr(node, name, value).  InfoModel.__setattr__ first validates a
\* value that is a model, "val in flat" over the root's flatten(): the
\* value itself or a model equal to it is already part of the tree, which
\* is a ValueError; the root has no such check.  Then pydantic raises
\* TypeError when the class's allow_mutation is False and stores the value
\* otherwise; __solid__ is not consulted.
setattr(h, p, name, value) ==
    IF /\ p.at # "root" /\ value.t = "Node"
       /\ \E m \in flatten(h) : NodeEq(h, m, h, value)
    THEN [h |-> h, err |-> "ValueError"]
    ELSE IF ClassAt(h, p) \in frozen THEN [h |-> h, err |-> "TypeError"]
    ELSE CASE p.at = "root" -> [h |-> [h EXCEPT ![name] = value], err |-> ""]
           [] p.at = "server" ->
                [h |-> [h EXCEPT !.server[name] = value], err |-> ""]
           [] OTHER ->
                [h |-> [h EXCEPT ![p.at].items[p.i][name] = value],
                 err |-> ""]

\* A Python list of values.
List(s) == [t |-> "List", items |-> s]

\* InfoModelArray.__validate(value): isinstance(value, InfoModel).  Every
\* node is an InfoModel, whatever its class.
validate(value) == value.t = "Node"

\* array.append(item).  The result is [val, err], val being the array
\* after the call.
append(array, item) ==
    IF ~validate(item) THEN [val |-> array, err |-> "TypeError"]
    ELSE [val |-> Arr(Append(array.items, item)), err |-> ""]

\* array.extend(other): the members of another InfoModelArray are taken as
\* they are, the values of a list are validated one by one before any of
\* them is taken.
extend(array, other) ==
    IF /\ other.t # "Arr"
       /\ \E j \in DOMAIN other.items : ~validate(other.items[j])
    THEN [val |-> array, err |-> "TypeError"]
    ELSE [val |-> Arr(array.items \o other.items), err |-> ""]

\* setattr(self, key, array) of _add, r being the outcome of the append.
Assigned(h, key, r) ==
    IF r.err # "" THEN [h |-> h, err |-> r.err]
    ELSE [h |-> [h EXCEPT ![key] = r.val], err |-> ""]

\* ModelTree._add(key, obj) on a hopper, as add_players, add_squads and
\* add_teams call it: obj is appended to the array, a new one when the
\* field is Unset, and the array is assigned to the field; nothing is
\* checked but that obj is an InfoModel.
_add(h, key, obj) ==
    Assigned(h, key, append(Arr(Items(h, key)), obj))

mergeOver(h, a, b) ==
    IF ~IsInstance(b, a.cls) \/ ~IsMutable(h, a.cls)
    THEN [val |-> a, err |-> "TypeError"]
    ELSE [val |-> [f \in DOMAIN a |->
                      IF f \in Fields(a) /\ b[f] # Unset THEN b[f]
                      ELSE a[f]],
          err |-> ""]

\* a.merge(b) for a node a under root h whose fields hold no model and no
\* array: TypeError unless b is an instance of a's class and a is mutable,
\* then every Unset field of a takes b's raw value.  The result is
\* [val, err], val being a after the call.
merge(h, a, b) ==
    IF ~IsInstance(b, a.cls) \/ ~IsMutable(h, a.cls)
    THEN [val |-> a, err |-> "TypeError"]
    ELSE [val |-> mergeNode(a, b), err |-> ""]

\* The filters of the lookup merge does for other_iter, a member of a
\* collection of hopper hb: single=True and every key field whose resolved
\* value is truthy.
KeyFilter(hb, n) ==
    [attr \in {"single"} \cup {a \in KeyFields(n.cls) : Truthy(get(hb, n, a))}
        |-> IF attr = "single" THEN TRUE ELSE get(hb, n, attr)]

\* The array res.val with the outcome r of the member merge at pos stored.
Merged(res, pos, r) ==
    [val |-> [res.val EXCEPT !.items[pos] = r.val], err |-> r.err]

\* if self_iter: self_iter.merge(other_iter)
mergeMember(h, res, pos, other_iter) ==
    IF pos = 0 THEN res
    ELSE Merged(res, pos, merge(h, res.val.items[pos], other_iter))

mergeMembersAppend(ha, hb, res, other_val, j) ==
    [res EXCEPT !.val.items = @ \o other_val]

\* "for other_iter in other_val" of merge on two arrays: the first member
\* of self_val matching other_iter's filters is merged with it, an
\* other_iter without a match is dropped.  res is [val, err], val being
\* self_val so far.
RECURSIVE mergeMembers(_, _, _, _, _)
mergeMembers(ha, hb, res, other_val, j) ==
    IF res.err # "" \/ j > Len(other_val) THEN res
    ELSE mergeMembers(ha, hb,
             mergeMember(ha, res,
                         _get(res.val.items, TRUE,
                              KeyFilter(hb, other_val[j])),
                         other_val[j]),
             other_val, j + 1)

\* One field of merge that holds an array or Unset on both sides: nothing
\* when other's is Unset, other's array itself when self's is Unset, else
\* the loop over the members.  The result is [val, err].
mergeCollection(ha, hb, self_val, other_val) ==
    IF other_val = Unset THEN [val |-> self_val, err |-> ""]
    ELSE IF self_val = Unset THEN [val |-> other_val, err |-> ""]
    ELSE mergeMembers(ha, hb, [val |-> self_val, err |-> ""],
                      other_val.items, 1)

\* The running state [h, err] of a hopper's merge with the outcome r of
\* the field at path stored.
Stored(st, path, r) ==
    [h |-> IF Len(path) = 1 THEN [st.h EXCEPT ![path[1]] = r.val]
           ELSE [st.h EXCEPT ![path[1]][path[2]] = r.val],
     err |-> r.err]

mergeAttr(st, hb, path) ==
    IF st.err # "" THEN st
    ELSE Stored(st, <<path>>,
                mergeCollection(st.h, hb, st.h[path], hb[path]))

\* self_val.merge(other_val) for the server field
mergeServer(st, hb) ==
    IF st.err # "" THEN st
    ELSE Stored(st, <<"server">>, merge(st.h, st.h.server, hb.server))

\* Events.merge(other.events), field by field from position f of KindOrder
RECURSIVE mergeKinds(_, _, _)
mergeKinds(st, hb, f) ==
    IF st.err # "" \/ f > Len(KindOrder) THEN st
    ELSE mergeKinds(
             Stored(st, <<"events", KindOrder[f]>>,
                 mergeCollection(st.h, hb, st.h.events[KindOrder[f]],
                                 hb.events[KindOrder[f]])),
             hb, f + 1)

\* self_val.merge(other_val) for the events field
mergeBuffer(st, hb) ==
    IF st.err # "" THEN st
    ELSE IF ~IsMutable(st.h, "Events") THEN [st EXCEPT !.err = "TypeError"]
    ELSE mergeKinds(st, hb, 1)

\* a.merge(b) for two hoppers, field by field in declaration order; an
\* exception leaves what was merged before it in place.
mergeTree(a, b) ==
    IF ~IsMutable(a, "InfoHopper") THEN [h |-> a, err |-> "TypeError"]
    ELSE mergeBuffer(
             mergeServer(
                 mergeAttr(mergeAttr(mergeAttr([h |-> a, err |-> ""],
                                               b, "players"),
                                     b, "squads"),
                           b, "teams"),
                 b),
             b)

-----------------------------------------------------------------------------
(* Trees and the operations on them *)

\* The number of set_mutable calls on one tree.
MaxFlips == 2

NodeAt(h, p) == IF p.at = "server" THEN h.server ELSE h[p.at].items[p.i]

Put(h, p, n) ==
    IF p.at = "server" THEN [h EXCEPT !.server = n]
    ELSE [h EXCEPT ![p.at].items[p.i] = n]

\* Players of which some fields are known and others are not.
TreePlayers(c) ==
    {[Player(S("A"), Unset, S("x"), c) EXCEPT !.role = S("rifleman")],
     [Player(S("A"), I(1), Unset, c) EXCEPT !.level = I(3),
                                            !.team = TeamLink(1)],
     [Player(S("B"), Unset, S("y"), c) EXCEPT !.role = S("medic"),
                                              !.level = I(1)]}

\* What a source knows besides the players: nothing, or the teams, some
\* of the server's fields and some events.
Sourced(h, full, c) ==
    IF ~full THEN h
    ELSE [h EXCEPT !.teams =
                       Arr(<<[Team(I(1), S("allies"), c) EXCEPT
                                 !.score = I(c)]>>),
                   !.events.player_join_server =
                       Arr(<<[EventModel("player_join_server", c) EXCEPT
                                 !.player = IF c = 0 THEN PlayerLink("A")
                                            ELSE Unset]>>),
                   !.events.player_level_up =
                       IF c = 0
                       THEN Arr(<<EventModel("player_level_up", c),
                                  EventModel("player_level_up", c)>>)
                       ELSE Unset,
                   !.server.map = IF c = 0 THEN S("foy") ELSE Unset,
                   !.server.state = IF c = 0 THEN Unset ELSE S("warmup")]

\* Kill and teamkill events constructed under the newer tree at tick 1.
KillEvents ==
    {[t |-> "Node", cls |-> k, event_time |-> D(1), player |-> pw[1],
      other |-> Unset, weapon |-> pw[2], created |-> 1] :
        k \in {"player_kill", "player_teamkill"},
        pw \in {<<PlayerLink("A"), Unset>>, <<Unset, S("mp40")>>,
                <<PlayerLink("B"), S("kar98")>>}}

Ready(n, o) ==
    [op |-> "init", n |-> 0, self |-> n, other |-> o,
     at |-> [at |-> "root", i |-> 0], a |-> None, b |-> None, res |-> None,
     name |-> "", flips |-> <<>>, was |-> {}, err |-> ""]

\* Two trees built by two sources; the newer one is as constructed or as
\* set_mutable(True) leaves it.
InitMerge ==
    \E np \in {Unset} \cup Arrays(TreePlayers(1)),
       op \in {Unset} \cup Arrays(TreePlayers(0)),
       nf \in BOOLEAN, of \in BOOLEAN, bool \in BOOLEAN :
        /\ \E r \in {set_mutable(Sourced([InfoHopper(1) EXCEPT
                                               !.players = np], nf, 1),
                                   {}, bool, FALSE)} :
            newer = r.h /\ frozen = r.frozen
        /\ older = Sourced([InfoHopper(0) EXCEPT !.players = op], of, 0)
        /\ call = Ready(newer, older)

\* A populated tree as constructed, and a tree to merge into it.
InitFreeze ==
    \E np \in {Unset} \cup Arrays(TreePlayers(1)), nf \in BOOLEAN :
        /\ newer = Sourced([InfoHopper(1) EXCEPT !.players = np], nf, 1)
        /\ older = Sourced([InfoHopper(0) EXCEPT
                               !.players = Arr(<<Player(S("A"), I(1), S("x"),
                                                        0)>>)],
                           TRUE, 0)
        /\ frozen = {}
        /\ call = Ready(newer, older)

Did(op, r) ==
    [Ready(newer, older) EXCEPT !.op = op, !.n = call.n + 1, !.was = frozen,
                                !.flips = call.flips, !.err = r.err]

\* newer.set_mutable(bool, force)
SetMutable ==
    /\ call.op \in {"init", "set_mutable"} /\ Len(call.flips) < MaxFlips
    /\ \E bool \in BOOLEAN, force \in BOOLEAN :
        \E r \in {set_mutable(newer, frozen, bool, force)} :
            /\ newer' = r.h
            /\ frozen' = r.frozen
            /\ call' = [Did("set_mutable", [err |-> ""]) EXCEPT
                            !.flips = Append(@, <<bool, force>>)]
    /\ UNCHANGED older

\* The assignments tried on a node of a class.
Assignments(cls) ==
    CASE cls = "InfoHopper" -> {<<"squads", Arr(<<>>)>>}
      [] cls = "Server" -> {<<"map", S("carentan")>>}
      [] cls = "Player" -> {<<"role", S("sniper")>>}
      [] OTHER -> {<<"score", I(5)>>}

\* setattr(node, name, value) on a node of newer
Assign ==
    /\ call.op \in {"init", "set_mutable"}
    /\ \E p \in Places(newer) :
        \E nv \in Assignments(ClassAt(newer, p)) :
            \E r \in {setattr(newer, p, nv[1], nv[2])} :
                /\ newer' = r.h
                /\ call' = [Did("setattr", r) EXCEPT
                                !.at = p, !.name = nv[1], !.b = nv[2]]
    /\ UNCHANGED <<older, frozen>>

\* a.merge(b) for a node a of newer and a node b of older
MergeNode ==
    /\ call.op \in {"init", "set_mutable"}
    /\ \E p \in Places(newer) \ {[at |-> "root", i |-> 0]},
          q \in Places(older) \ {[at |-> "root", i |-> 0]} :
        \E r \in {merge(newer, NodeAt(newer, p), NodeAt(older, q))} :
            /\ newer' = Put(newer, p, r.val)
            /\ call' = [Did("merge", r) EXCEPT
                            !.at = p, !.a = NodeAt(newer, p),
                            !.b = NodeAt(older, q), !.res = r.val]
    /\ UNCHANGED <<older, frozen>>

\* a.merge(b) for two events constructed under newer and not yet added
MergeEvent ==
    /\ call.op \in {"init", "set_mutable"}
    /\ \E a \in KillEvents, b \in KillEvents :
        \E r \in {merge(newer, a, b)} :
            call' = [Did("merge", r) EXCEPT
                        !.at = [at |-> "none", i |-> 0], !.a = a, !.b = b,
                        !.res = r.val]
    /\ UNCHANGED <<newer, older, frozen>>

\* newer.merge(older)
MergeTree ==
    /\ call.op \in {"init", "set_mutable"}
    /\ \E r \in {mergeTree(newer, older)} :
        /\ newer' = r.h
        /\ call' = Did("merge_tree", r)
    /\ UNCHANGED <<older, frozen>>

\* The number of nodes added or assigned to one tree.
MaxAdds == 2

\* The arrays of the universe U in which no node appears twice.
Distinct(U) ==
    {a \in Arrays(U) :
        \A i, j \in 1..Len(a.items) : i # j => a.items[i] # a.items[j]}

\* A tree built node by node at tick 1: every player and the team is a
\* node of its own.
InitIntegrity ==
    \E np \in {Unset} \cup Distinct(TreePlayers(1)),
       nt \in {Unset, Arr(<<Team(I(1), S("allies"), 1)>>)} :
        /\ newer = [InfoHopper(1) EXCEPT !.players = np, !.teams = nt]
        /\ older = InfoHopper(0)
        /\ frozen = {}
        /\ call = Ready(newer, older)

\* The nodes an array may be given: a member it holds already, or a node
\* constructed under the tree at tick now and held nowhere yet.
Addable(h, key, now) ==
    Range(Items(h, key))
    \cup IF key = "players"
         THEN {Player(S("C"), Unset, S("z"), now),
               Player(S("A"), Unset, Unset, now)}
         ELSE {Team(I(2), S("axis"), now), Team(I(1), Unset, now)}

\* newer.add_players(obj) and newer.add_teams(obj)
Add ==
    /\ call.n < MaxAdds
    /\ \E key \in {"players", "teams"} :
        \E obj \in Addable(newer, key, call.n + 2) :
            \E r \in {_add(newer, key, obj)} :
                /\ newer' = r.h
                /\ call' = [Did("add", r) EXCEPT !.name = key, !.b = obj]
    /\ UNCHANGED <<older, frozen>>

\* The tree after the node that read old became new in place: every
\* place of the players array that holds the node shows the change.
Shared(h, old, new) ==
    [h EXCEPT !.players.items =
        [k \in DOMAIN @ |-> IF @[k] = old THEN new ELSE @[k]]]

\* player.team = value for a player of newer; value is a team of the tree,
\* a team constructed now, or a Link.
AssignNode ==
    /\ call.n < MaxAdds
    /\ \E p \in {q \in Places(newer) : q.at = "players"} :
        \E value \in Addable(newer, "teams", call.n + 2) \cup {TeamLink(1)} :
            \E r \in {setattr(newer, p, "team", value)} :
                /\ newer' = Shared(r.h, NodeAt(newer, p), NodeAt(r.h, p))
                /\ call' = [Did("setattr", r) EXCEPT
                                !.at = p, !.name = "team", !.b = value]
    /\ UNCHANGED <<older, frozen>>

NextIntegrity == Add \/ AssignNode

\* Nodes to compare: players, squads and teams with some keys known, and
\* events, which have no key field.
EqNodes ==
    TreePlayers(1)
    \cup {Player(Unset, I(1), S("x"), 1), Player(Unset, Unset, Unset, 1),
          [Player(S("A"), I(2), S("y"), 1) EXCEPT !.role = S("medic")]}
    \cup {Able(1), Baker(1), Charlie(1), Squad(Unset, S("able"), Unset, 1),
          Squad(I(1), Unset, TeamLink(2), 1)}
    \cup {Team(I(1), S("allies"), 1), Team(I(1), Unset, 1),
          [Team(Unset, S("axis"), 1) EXCEPT !.score = I(3)]}
    \cup {e \in KillEvents : e.weapon # Unset}

\* Two nodes constructed under one tree.
InitEq ==
    \E a \in EqNodes, b \in EqNodes :
        /\ newer = InfoHopper(1)
        /\ older = InfoHopper(0)
        /\ frozen = {}
        /\ call = [Ready(newer, older) EXCEPT !.a = a, !.b = b]

\* The fields of a node that are no key fields, each with a value to
\* assign.
NonKeys(cls) ==
    CASE cls = "Player" -> {<<"role", S("sniper")>>, <<"level", I(9)>>}
      [] cls = "Squad" -> {<<"leader", PlayerLink("C")>>}
      [] cls = "Team" -> {<<"score", I(9)>>}
      [] OTHER -> {<<"weapon", S("m1")>>}

\* a.f = v for a field f of a that is no key field
Touch ==
    /\ call.op = "init"
    /\ \E fv \in NonKeys(call.a.cls) :
        call' = [call EXCEPT !.op = "touch", !.name = fv[1],
                             !.a[fv[1]] = fv[2]]
    /\ UNCHANGED <<newer, older, frozen>>

\* a == b, b == a and a == a
Equals ==
    /\ call.op \in {"init", "touch"}
    /\ call' = [call EXCEPT
                    !.op = "eq",
                    !.res = [ab |-> NodeEq(newer, call.a, newer, call.b),
                             ba |-> NodeEq(newer, call.b, newer, call.a),
                             aa |-> NodeEq(newer, call.a, newer, call.a)]]
    /\ UNCHANGED <<newer, older, frozen>>

NextEq == Touch \/ Equals

\* InfoHopper.gather(a, b) at tick now: a hopper constructed now into
\* which a and then b are merged.  The result is [h, err].  The members
\* taken over from a keep a as their root; a, like the new hopper, is as
\* constructed, so is_mutable() reads the same __solid__ on either.
gather(a, b, now) ==
    \* info.merge(b) on what info.merge(a) left, when that did not raise
    IF mergeTree(InfoHopper(now), a).err # ""
    THEN mergeTree(InfoHopper(now), a)
    ELSE mergeTree(mergeTree(InfoHopper(now), a).h, b)

\* Hopper a after r took over the arrays a holds: merge assigned them to
\* r's fields as they are, so what r merged into their members later shows
\* in a as well.
Adopted(a, r) ==
    [a EXCEPT !.players = IF @ = Unset THEN @ ELSE r.players,
              !.squads = IF @ = Unset THEN @ ELSE r.squads,
              !.teams = IF @ = Unset THEN @ ELSE r.teams,
              !.events = [k \in DOMAIN @ |->
                             IF @[k] = Unset THEN @[k] ELSE r.events[k]]]

hopper_root(n) == newer

\* obj_getattr(n, "__hopper__"): the hopper n was constructed under.  A
\* hopper and the nodes constructed under it carry the tick of their
\* poll; the hoppers there are, are newer, older and the one a gather took
\* as its second argument.
hopper_of(n) ==
    CHOOSE h \in {newer, older, call.self} : h.server.created = n.created

\* A source of a gather polled at tick c: it may know players, each with a
\* Link to its team, squads, and the teams with their scores.
Sources(c) ==
    {[InfoHopper(c) EXCEPT !.players = pl, !.squads = sq, !.teams = tm] :
        pl \in {Unset}
               \cup Arrays({[Player(S("A"), Unset, Unset, c) EXCEPT
                                !.team = TeamLink(1)],
                            [Player(S("B"), Unset, Unset, c) EXCEPT
                                !.team = TeamLink(2),
                                !.squad = SquadLink(1)]}),
        sq \in {Unset, Arr(<<Able(c)>>)},
        tm \in {Unset, BothTeams(c)}}

InitGather ==
    \E a \in Sources(0), b \in Sources(1) :
        /\ older = a
        /\ newer = b
        /\ frozen = {}
        /\ call = Ready(newer, older)

\* newer = InfoHopper.gather(older, newer)
Gather ==
    /\ call.op = "init"
    /\ \E r \in {gather(older, newer, 2)} :
        /\ newer' = r.h
        /\ older' = Adopted(older, r.h)
        /\ call' = Did("gather", r)
    /\ UNCHANGED frozen

\* The Link fields of the members of an array.
LinkFields(path) ==
    IF path = "players" THEN {"team", "squad"}
    ELSE IF path = "squads" THEN {"team", "leader"}
    ELSE {}

\* node.get(name) for a member of newer and a field that holds a Link
Resolve ==
    /\ call.op \in {"init", "gather"}
    /\ \E p \in Places(newer) \ {[at |-> "root", i |-> 0],
                                 [at |-> "server", i |-> 0]} :
        \E name \in {f \in LinkFields(p.at) : NodeAt(newer, p)[f].t = "Link"} :
            call' = [call EXCEPT
                        !.op = "get", !.at = p, !.name = name,
                        !.a = NodeAt(newer, p),
                        !.res = get(hopper_of(NodeAt(newer, p)),
                                    NodeAt(newer, p), name)]
    /\ UNCHANGED <<newer, older, frozen>>

NextGather == Gather \/ Resolve

\* The values a collection is offered: a player, a squad and a team
\* constructed under the tree at tick now, and a str.
Offered(now) ==
    {Player(S("C"), Unset, S("z"), now), Squad(I(3), S("dog"), Unset, now),
     Team(I(2), S("axis"), now), S("easy")}

\* A tree whose players and squads may be populated.
InitArrays ==
    \E np \in {Unset, Arr(<<>>), Arr(<<Player(S("A"), Unset, S("x"), 1)>>)},
       ns \in {Unset, Arr(<<Able(1)>>)} :
        /\ newer = [InfoHopper(1) EXCEPT !.players = np, !.squads = ns]
        /\ older = InfoHopper(0)
        /\ frozen = {}
        /\ call = Ready(newer, older)

\* newer.add_players(obj), newer.add_squads(obj) and newer.add_teams(obj)
AddMember ==
    /\ call.n < MaxAdds
    /\ \E key \in {"players", "squads", "teams"} :
        \E obj \in Offered(call.n + 2) :
            \E r \in {_add(newer, key, obj)} :
                /\ newer' = r.h
                /\ call' = [Did("add", r) EXCEPT !.name = key,
                                                 !.b = List(<<obj>>)]
    /\ UNCHANGED <<older, frozen>>

\* newer.<key>.append(obj) on a collection that is set
AppendMember ==
    /\ call.n < MaxAdds
    /\ \E key \in {k \in {"players", "squads", "teams"} : newer[k] # Unset} :
        \E obj \in Offered(call.n + 2) :
            \E r \in {append(newer[key], obj)} :
                /\ newer' = [newer EXCEPT ![key] = r.val]
                /\ call' = [Did("append", r) EXCEPT !.name = key,
                                                    !.b = List(<<obj>>)]
    /\ UNCHANGED <<older, frozen>>

\* newer.<key>.extend(other) on a collection that is set, other being a
\* list of offered values or another collection of the tree
ExtendMembers ==
    /\ call.n < MaxAdds
    /\ \E key \in {k \in {"players", "squads", "teams"} : newer[k] # Unset} :
        \E other \in {List(q) : q \in Seqs(Offered(call.n + 2), 2)}
                     \cup {newer[k] : k \in {j \in {"players", "squads"} :
                                                newer[j] # Unset}} :
            \E r \in {extend(newer[key], other)} :
                /\ newer' = [newer EXCEPT ![key] = r.val]
                /\ call' = [Did("extend", r) EXCEPT !.name = key, !.b = other]
    /\ UNCHANGED <<older, frozen>>

\* The members of a source's array, each with a created_at of its own.
Stamped(q) == Arr([j \in DOMAIN q |-> [q[j] EXCEPT !.created_at = D(10 + j)]])

\* Two trees that know the teams, some by a falsy id or name.
InitMatchTeams ==
    \E nt \in Arrays({Team(I(1), S("allies"), 1), Team(I(0), S("axis"), 1),
                      Team(I(1), Unset, 1), Team(Unset, S(""), 1)}),
       ot \in Seqs({Team(I(1), S("allies"), 0), Team(I(0), S("allies"), 0),
                    Team(I(2), S(""), 0)}, MaxPlayers) :
        /\ newer = [InfoHopper(1) EXCEPT !.teams = nt]
        /\ older = [InfoHopper(0) EXCEPT !.teams = Stamped(ot)]
        /\ frozen = {}
        /\ call = Ready(newer, older)

\* Two trees that know squads, whose team is a Link; the source may know
\* the teams the Links refer to.
InitMatchSquads ==
    \E ns \in Arrays({Squad(I(1), S("able"), TeamLink(1), 1),
                      Squad(I(1), S("able"), TeamLink(2), 1),
                      Squad(I(1), Unset, Unset, 1)}),
       os \in Seqs({Squad(I(1), S("able"), TeamLink(1), 0),
                    Squad(I(2), S("baker"), TeamLink(2), 0)}, MaxPlayers),
       ot \in {Unset, Arr(<<Team(I(1), S("allies"), 0)>>)} :
        /\ newer = [InfoHopper(1) EXCEPT !.squads = ns]
        /\ older = [InfoHopper(0) EXCEPT !.squads = Stamped(os),
                                         !.teams = ot]
        /\ frozen = {}
        /\ call = Ready(newer, older)

InitMatch == InitMatchTeams \/ InitMatchSquads

NextMatch == MergeTree

NextSources == Gather \/ MergeTree

NextArrays == AddMember \/ AppendMember \/ ExtendMembers


NextMerge == MergeNode \/ MergeEvent \/ MergeTree

NextFreeze == SetMutable \/ Assign \/ MergeNode \/ MergeTree

SpecMerge == InitMerge /\ [][NextMerge]_vars
SpecFreeze == InitFreeze /\ [][NextFreeze]_vars
SpecIntegrity == InitIntegrity /\ [][NextIntegrity]_vars
SpecEq == InitEq /\ [][NextEq]_vars
SpecGather == InitGather /\ [][NextGather]_vars
SpecArrays == InitArrays /\ [][NextArrays]_vars
SpecMatch == InitMatch /\ [][NextMatch]_vars
SpecSources == InitMerge /\ [][NextSources]_vars

-----------------------------------------------------------------------------
(* Properties of merge *)

\* The last operation merged node call.b into node call.a.
MergedNode == call.op = "merge"

\* The declared fields of a node, and what identifies it besides them.
Declared(n) == DOMAIN n \ {"t", "cls", "created"}

\* a was mutable when the operation began: its root was not solid and its
\* class allowed mutation.
WasMutable(cls) == ~call.self.solid /\ cls \notin call.was

MergedTree == call.op = "merge_tree"

\* The collections a tree may hold: its three arrays and the arrays of its
\* event buffer.
Held(h) ==
    [path \in {"players", "squads", "teams"} \cup Kinds |->
        IF path \in Kinds THEN h.events[path] ELSE h[path]]

\* Node n is node m with nothing but unset fields filled.
Filled(n, m) ==
    /\ DOMAIN n = DOMAIN m
    /\ \A f \in DOMAIN m : (f \in Declared(m) /\ m[f] = Unset) \/ n[f] = m[f]

\* C14: a.merge(b) never lengthens a collection held by a: whatever a held
\* as a collection before still has the same members in the same order,
\* each of them changed at most by having unset fields filled, and none of
\* b's members added.
C14_MergeNeverAppends ==
    MergedTree =>
        \A path \in DOMAIN Held(newer) :
            Held(call.self)[path] # Unset =>
                /\ Held(newer)[path] # Unset
                /\ Len(Held(newer)[path].items) =
                       Len(Held(call.self)[path].items)
                /\ \A i \in 1..Len(Held(newer)[path].items) :
                    Filled(Held(newer)[path].items[i],
                           Held(call.self)[path].items[i])

\* A merge in which one of b's two players matched and filled a's only
\* player and the other was dropped.
C14_Witness ==
    /\ MergedTree /\ call.err = ""
    /\ call.self.players # Unset /\ Len(call.self.players.items) = 1
    /\ call.other.players # Unset /\ Len(call.other.players.items) = 2
    /\ newer.players.items[1] # call.self.players.items[1]
    /\ \E j \in 1..2 :
        ~KeyEq(call.other.players.items[j], call.self.players.items[1])

\* The merge raised a type error and left a, and the tree a lives in, as
\* they were.
Refused ==
    /\ call.err = "TypeError"
    /\ call.res = call.a
    /\ newer = call.self

\* C15: a.merge(b) fails with a type error and leaves a unchanged whenever
\* b is not of exactly a's concrete type, an instance of a subclass of a's
\* type included, or a is not mutable.
C15_MergeNeedsExactType ==
    (MergedNode /\ (call.b.cls # call.a.cls \/ ~WasMutable(call.a.cls))) =>
        Refused

\* The same for a b that is no instance of a's class at all, or an
\* immutable a: here the code does refuse.
C15_MergeNeedsInstance ==
    (MergedNode /\ (call.a.cls \notin Bases(call.b.cls)
                    \/ ~WasMutable(call.a.cls))) =>
        Refused

\* A teamkill event merged into a mutable kill event is accepted and fills
\* the kill event's unset fields.
C15_SubclassAccepted ==
    (MergedNode /\ call.a.cls = "player_kill"
                /\ call.b.cls = "player_teamkill"
                /\ WasMutable(call.a.cls)) =>
        /\ call.err = ""
        /\ \A f \in Declared(call.a) :
            (call.a[f] = Unset /\ call.b[f] # Unset) =>
                call.res[f] = call.b[f]

-----------------------------------------------------------------------------
(* Properties of set_mutable *)

\* The arguments <<bool, force>> of the set_mutable calls made so far on
\* the newer tree, which was constructed mutable.
Flips == call.flips

\* The bool of the last set_mutable call.
LastFlip == Flips[Len(Flips)][1]

Plainly(bool) == <<bool, FALSE>>

\* is_mutable() of every node of the newer tree, the root included.
Mutability == {IsMutable(newer, ClassAt(newer, p)) : p \in Places(newer)}

\* The last operation was an assignment, or a merge of a node of a's own
\* class, on the newer tree.
Wrote ==
    \/ call.op = "setattr"
    \/ call.op = "merge" /\ call.a.cls = call.b.cls

\* C16: after root.set_mutable(False) on a populated mutable root,
\* is_mutable() is false for the root and every node it contains, and an
\* assignment to a field of any of them fails with a type error.
C16_FreezeCascades ==
    Flips = <<Plainly(FALSE)>> =>
        /\ Mutability = {FALSE}
        /\ call.op = "setattr" =>
                call.err = "TypeError" /\ newer = call.self

\* What set_mutable(False) does on a tree as constructed: nothing.  Every
\* node stays mutable and every assignment succeeds.
C16_FalseIsNoOp ==
    Flips = <<Plainly(FALSE)>> =>
        /\ Mutability = {TRUE}
        /\ frozen = {}
        /\ call.op = "setattr" => call.err = "" /\ newer # call.self

\* C17: after any sequence of set_mutable calls is_mutable() of the root
\* and of every node it contains equals the argument of the last call, and
\* after set_mutable(False) followed by set_mutable(True) assignment and
\* merge succeed.
C17_FreezeReverts ==
    /\ Flips # <<>> => Mutability = {LastFlip}
    /\ (Flips = <<Plainly(FALSE), Plainly(TRUE)>> /\ Wrote) => call.err = ""

\* What the code does: the root's __solid__ is the argument of the last
\* call, so the root is mutable exactly when that argument is False; a
\* class once frozen stays frozen, and after set_mutable(True) nothing is
\* mutable.
C17_SolidIsLastArgument ==
    Flips # <<>> =>
        /\ newer.solid = LastFlip
        /\ IsMutable(newer, "InfoHopper") = ~LastFlip
        /\ call.was \subseteq frozen
        /\ LastFlip => Mutability = {FALSE}

-----------------------------------------------------------------------------
(* Properties of the value tree *)

\* The places of a tree that contain a node by value: the members of its
\* arrays and their fields that hold a node.
Containers(h) ==
    UNION {{<<path, i, "">> : i \in 1..Len(Items(h, path))}
           \cup {<<path, i, f>> : i \in 1..Len(Items(h, path)),
                                  f \in {"team", "squad", "leader"}} :
              path \in {"players", "squads", "teams"}}

Contained(h, c) ==
    IF c[3] = "" THEN h[c[1]].items[c[2]]
    ELSE IF c[3] \in DOMAIN h[c[1]].items[c[2]]
         THEN h[c[1]].items[c[2]][c[3]]
         ELSE None

\* The nodes a tree contains by value.
ValueNodes(h) == {v \in {Contained(h, c) : c \in Containers(h)} : v.t = "Node"}

\* No node is contained at two places.
Integrity(h) ==
    \A c, d \in Containers(h) :
        (c # d /\ Contained(h, c).t = "Node") =>
            Contained(h, c) # Contained(h, d)

\* C18: whatever nodes are added and assigned, no node is contained by
\* value at two places of the tree; an operation that fails leaves the tree
\* unchanged, and a node that is not in the tree is accepted.
C18_NoNodeTwice ==
    /\ Integrity(newer)
    /\ call.err # "" => newer = call.self
    /\ (call.op \in {"add", "setattr"} /\ call.b.t = "Node"
            /\ call.b \notin ValueNodes(call.self)) => call.err = ""

\* What the code does on add_players and add_teams: the node is appended
\* whether or not the tree holds it already.
C18_AddChecksNothing ==
    call.op = "add" =>
        /\ call.err = ""
        /\ newer[call.name].items = Append(Items(call.self, call.name), call.b)

\* What the code does on the assignment of a node: it is refused exactly
\* when the tree holds a node that is equal to it by its keys, the node
\* itself or another one, and a refusal leaves the tree unchanged.
C18_AssignChecksEquality ==
    (call.op = "setattr" /\ call.b.t = "Node") =>
        /\ call.err = "ValueError" <=>
                \E m \in ValueNodes(call.self) :
                    m.cls = call.b.cls /\ KeyEq(m, call.b)
        /\ call.err # "" => newer = call.self

-----------------------------------------------------------------------------
(* Properties of equality *)

\* The key fields of a class.
KeysOf(cls) ==
    CASE cls = "Player" -> PlayerKeys
      [] cls = "Squad" -> {"id", "name", "team"}
      [] cls = "Team" -> {"id", "name"}
      [] OTHER -> {}

\* What of a node its class and its key fields tell.
KeyPart(n) == [k \in KeysOf(n.cls) \cup {"cls"} |-> n[k]]

\* Equality as the key parts of two nodes of one class decide it: players
\* by what they hash, the others by the key fields both have set.
SameByKeys(ka, kb) ==
    IF ka.cls = "Player" THEN HashOf(ka) = HashOf(kb)
    ELSE SameEntity(ka, kb, KeysOf(ka.cls))

\* C19: for two nodes of the same concrete type == is decided by their
\* key-field values alone and is reflexive and symmetric; for two nodes of
\* different concrete types it is false.
C19_EqualityByKeys ==
    call.op = "eq" =>
        /\ call.res.aa
        /\ call.res.ab = call.res.ba
        /\ call.a.cls = call.b.cls =>
                call.res.ab = SameByKeys(KeyPart(call.a), KeyPart(call.b))
        /\ call.a.cls # call.b.cls => ~call.res.ab

\* Two squads that differ in a key field one of them does not know and in
\* a field that is no key, and are equal.
C19_Witness ==
    /\ call.op = "eq" /\ call.res.ab
    /\ call.a.cls = "Squad" /\ call.b.cls = "Squad"
    /\ call.a.leader # call.b.leader
    /\ call.a.team = Unset /\ call.b.team # Unset
    /\ call.name = "leader"

\* Two nodes of one type that are not equal, and a kill event that is not
\* equal to a teamkill event.
C19_WitnessUnequal ==
    /\ call.op = "eq" /\ ~call.res.ab
    /\ \/ call.a.cls = call.b.cls /\ call.a.cls = "Team"
       \/ call.a.cls = "player_kill" /\ call.b.cls = "player_teamkill"

-----------------------------------------------------------------------------
(* Properties of link resolution *)

\* A Link of a member of the newer tree was resolved.
Resolved == call.op = "get"

\* The members of the linked collection of tree h that carry the link's
\* values.
Linked(h, link) ==
    {i \in 1..Len(Items(h, link.path)) :
        \A k \in DOMAIN link.values :
            Items(h, link.path)[i][k] = link.values[k]}

\* What a Link without fallback resolves to against tree h: the first
\* member carrying its values, or None.
ResolvedIn(h, link) ==
    IF Linked(h, link) = {} THEN None
    ELSE Items(h, link.path)[Min(Linked(h, link))]

\* The tree a node was constructed under: the newer tree itself, or the
\* source of the gather that was polled at the node's tick.
Origin(n) ==
    IF n.created = newer.server.created THEN newer
    ELSE IF n.created = older.server.created THEN older
    ELSE call.self

\* C20: a Link of an entity reachable from a root R, a root produced by
\* gather included, resolves against R's own collections.
C20_LinksResolveInRoot ==
    Resolved => call.res = ResolvedIn(newer, call.a[call.name])

\* C20, amended: a Link of an entity reachable from a root R resolves
\* against the collections of the root the entity was constructed under,
\* which for a root produced by gather is the source the entity came from.
C20_LinksResolveInOrigin ==
    Resolved => call.res = ResolvedIn(Origin(call.a), call.a[call.name])

\* A player of a gathered root whose team Link finds nothing, its source
\* not knowing the teams, while the root holds the team.
C20_Witness ==
    /\ Resolved /\ call.at.at = "players" /\ call.name = "team"
    /\ newer.server.created = 2
    /\ Origin(call.a).teams = Unset
    /\ call.res = None
    /\ ResolvedIn(newer, call.a.team) # None

-----------------------------------------------------------------------------
(* Properties of entity collections *)

\* The class a collection of the hopper is annotated with.
MemberType(key) ==
    CASE key = "players" -> "Player"
      [] key = "squads" -> "Squad"
      [] OTHER -> "Team"

\* The last operation offered values to a collection of the tree.
Populated == call.op \in {"add", "append", "extend"}

\* A value that is no node of the member type of the collection at key.
Foreign(key, value) == value.t # "Node" \/ value.cls # MemberType(key)

\* C21: a collection is type-homogeneous: add_players, add_squads,
\* add_teams, append and extend raise on a value that is not of the
\* collection's member type and leave the tree as it was.
C21_ArraysHomogeneous ==
    (Populated /\ \E j \in DOMAIN call.b.items :
                    Foreign(call.name, call.b.items[j]))
        => call.err # "" /\ newer = call.self

\* What the code checks: a list value that is no InfoModel raises
\* TypeError and leaves the tree as it was; nodes of any class are taken,
\* and so are the members of another collection.
C21_OnlyModelsChecked ==
    Populated =>
        IF call.b.t = "List" /\ \E j \in DOMAIN call.b.items :
                                    call.b.items[j].t # "Node"
        THEN call.err = "TypeError" /\ newer = call.self
        ELSE /\ call.err = ""
             /\ newer[call.name].items =
                    Items(call.self, call.name) \o call.b.items

-----------------------------------------------------------------------------
(* Properties of private events *)

\* The events held by the collections of the buffer of hopper h.
Buffered(h) ==
    UNION {Range(h.events[k].items) :
              k \in {f \in DOMAIN h.events : h.events[f] # Unset}}

\* The last Events.add was given a private event or a private event class.
SeededPrivate == call.seed # None /\ call.seed.event.cls \in PrivateKinds

\* C22: Events.add of a private event, or of the class of one, raises
\* ValueError and leaves the buffer as it was; whatever Events.add and
\* compare_older calls were made, the snapshot's buffer has no collection
\* for a private kind and holds no private event, and neither does the
\* local buffer of a compare_older call.
C22_PrivateEventsRejected ==
    /\ (call.op = "events_add" /\ SeededPrivate)
            => call.err = "ValueError" /\ newer = call.self
    /\ DOMAIN newer.events \cap PrivateKinds = {}
    /\ \A e \in Buffered(newer) \cup Range(call.buf) :
            e.cls \notin PrivateKinds

\* A private event (not its class) was offered, and a compare_older call
\* that derived events followed.
C22_Witness ==
    /\ call.op = "compare_older" /\ call.err = ""
    /\ SeededPrivate /\ ~call.seed.isclass
    /\ call.buf # <<>> /\ Buffered(newer) # {}

-----------------------------------------------------------------------------
(* Properties of the authorization policies *)

\* The route handled a request to an endpoint decorated with policy.
Requested(policy) == call.op = "request" /\ call.endpoint = policy

\* C23: the Disallow policy is never satisfied: a request to an endpoint
\* that carries it is reported as not allowed, ends in
\* PolicyAuthorizationError and never reaches the endpoint's handler.
C23_DisallowNeverSatisfied ==
    Requested(Disallow) =>
        /\ ~call.result.allowed
        /\ call.err = "PolicyAuthorizationError"
        /\ ~call.handled

\* What the code does: Disallow.check reports allowed = True with a
\* failure reason, so every request to such an endpoint is handled.
C23_DisallowAlwaysAllows ==
    Requested(Disallow) =>
        /\ call.result = PolicyCheckResult(TRUE,
                              S("Policy disallows authorization"))
        /\ call.err = ""
        /\ call.handled

\* The handler is reached exactly when the effective policy's check
\* allows the request.
C23_HandledIffAllowed ==
    call.op = "request" =>
        /\ call.handled <=> call.result.allowed
        /\ call.handled <=> call.err = ""
        /\ call.policy = PolicyOf(call.endpoint)

-----------------------------------------------------------------------------
(* Properties of the team phase *)

\* Newer team i was visited, found no match and has a known score.
ScoredAlone(i) == call.tr.teams[i].m = 0 /\ NewerTeam(i).score # Unset

\* The created_at a visited newer team is to end with: its own when known,
\* else its construction time.
OwnStamp(n) == IF n.created_at = Unset THEN D(n.created) ELSE n.created_at

\* C24: a newer team with a known score and no match in the older teams
\* is passed over silently: the call completes, derives no objective
\* capture for the team and backfills its unset created_at with its
\* construction time.
C24_UnmatchedTeamSkipped ==
    DiffedTeams =>
        \A i \in 1..Len(call.tr.teams) :
            ScoredAlone(i) =>
                /\ call.err = ""
                /\ Captures(i) = {}
                /\ newer.teams.items[i].created_at = OwnStamp(NewerTeam(i))

\* What the code does: match.has('score') is evaluated on a match of None,
\* so the call ends in an AttributeError at that team: its created_at is
\* not backfilled, no later team is visited and no event reaches the
\* snapshot's buffer.
C24_UnmatchedScoredTeamRaises ==
    DiffedTeams =>
        \A i \in 1..Len(call.tr.teams) :
            ScoredAlone(i) =>
                /\ call.err = "AttributeError"
                /\ i = Len(call.tr.teams)
                /\ Captures(i) = {}
                /\ newer.teams.items[i].created_at = NewerTeam(i).created_at
                /\ newer.events = call.self.events

\* An unmatched team whose score is unknown is passed over as claimed.
C24_UnscoredTeamBackfilled ==
    DiffedTeams =>
        \A i \in 1..Len(call.tr.teams) :
            (call.tr.teams[i].m = 0 /\ NewerTeam(i).score = Unset) =>
                /\ Captures(i) = {}
                /\ newer.teams.items[i].created_at = OwnStamp(NewerTeam(i))
                /\ i < Len(call.tr.teams) \/ call.err = ""

-----------------------------------------------------------------------------
(* Properties of the order of events *)

\* The place of a phase in the call.
PhaseRank(ph) ==
    CASE ph = "players" -> 1
      [] ph = "squads" -> 2
      [] ph = "teams" -> 3
      [] OTHER -> 4

\* The place of an event kind within the iteration that adds it, for a
\* member of the newer collection and for a leftover older member.
KindRank(left, kind) ==
    IF left
    THEN CASE kind = "player_score_update" -> 1
           [] kind = "player_leave_server" -> 2
           [] kind = "player_switch_squad" -> 3
           [] kind = "player_switch_team" -> 4
           [] OTHER -> 5
    ELSE CASE kind = "player_change_role" -> 1
           [] kind = "player_level_up" -> 2
           [] kind = "player_join_server" -> 3
           [] kind = "player_switch_squad" -> 4
           [] kind = "player_switch_team" -> 5
           [] kind = "squad_leader_change" -> 6
           [] OTHER -> 7

\* The event at j1 of the local buffer is due before the one at j2: an
\* earlier phase; in one phase the newer members before the leftovers, a
\* lower position before a higher one; in one iteration the earlier kind.
DueBefore(j1, j2) ==
    LET a == call.src[j1]
        b == call.src[j2]
    IN  \/ PhaseRank(a.ph) < PhaseRank(b.ph)
        \/ /\ a.ph = b.ph
           /\ \/ ~a.left /\ b.left
              \/ a.left = b.left /\ a.i < b.i
              \/ /\ a = b
                 /\ KindRank(a.left, call.buf[j1].cls)
                        < KindRank(a.left, call.buf[j2].cls)

\* The phase an event kind belongs to.
PhaseOfKind(kind) ==
    CASE kind \in PlayerKinds -> "players"
      [] kind \in {"squad_created", "squad_disbanded",
                   "squad_leader_change"} -> "squads"
      [] kind = "objective_capture" -> "teams"
      [] OTHER -> "server"

\* C25: the local buffer of a compare_older call is in order: the events
\* of the player phase before those of the squad phase, those before the
\* team phase's, those before the map-changed event; in a phase the
\* events of the newer members in their order, then those of the leftover
\* older members in the order these have in the older collection; for one
\* leftover player at most one each of score update, leave, squad switch
\* and team switch, in that order.
C25_EventsInOrder ==
    Compared =>
        /\ \A j \in 1..Len(call.buf) :
                call.src[j].ph = PhaseOfKind(call.buf[j].cls)
        /\ \A j1, j2 \in 1..Len(call.buf) : j1 < j2 => DueBefore(j1, j2)

\* Two newer players and two leftover older ones, the second with all its
\* four events, then squad events, a capture and the map change.
C25_Witness ==
    /\ call.op = "compare_older" /\ call.err = ""
    /\ Len(call.tr.players) = 2
    /\ Cardinality({call.src[j].i : j \in {k \in 1..Len(call.buf) :
            call.src[k].ph = "players" /\ call.src[k].left}}) = 2
    /\ \E j \in 1..(Len(call.buf) - 3) :
        /\ call.src[j] = [ph |-> "players", i |-> 2, left |-> TRUE]
        /\ call.src[j + 3] = call.src[j]
    /\ {"player_join_server", "squad_created", "squad_disbanded",
        "objective_capture", "server_map_changed"} \subseteq KindsIn(call.buf)

-----------------------------------------------------------------------------
(* Properties of the matching of members in merge *)

\* Member j of b's collection at path and member pos of a's, as the call
\* found them.
Theirs(path, j) == call.other[path].items[j]
Ours(path, pos) == call.self[path].items[pos]

\* The last operation merged a tree into another, both holding the
\* collection at path.
MergedBoth(path) ==
    /\ MergedTree /\ call.err = ""
    /\ call.self[path] # Unset /\ call.other[path] # Unset

\* Member j of b's collection was merged into member pos of a's: that
\* member's unset created_at became b's member's own.
MergedInto(path, j, pos) ==
    /\ Ours(path, pos).created_at = Unset
    /\ newer[path].items[pos].created_at = Theirs(path, j).created_at

\* No earlier member of b's collection was merged anywhere: member j met
\* a's members as the call found them.
Quiet(path, j) ==
    \A k \in 1..(j - 1) : \A pos \in 1..Len(call.self[path].items) :
        ~MergedInto(path, k, pos)

\* No key field that is set in both x and y differs.
Compatible(x, y) ==
    \A k \in KeyFields(x.cls) :
        (x[k] # Unset /\ y[k] # Unset) => PyEq(y[k], x[k])

\* The members of a's collection that member j of b's is compatible with.
CompatibleWith(path, j) ==
    {pos \in 1..Len(call.self[path].items) :
        Compatible(Theirs(path, j), Ours(path, pos))}

\* C26: a member x of b's collection is merged into a member y of a's
\* only if no key field set in both differs, and it is merged into the
\* first such y whenever there is one, also for key fields that hold a
\* Link or a falsy value.
C26_MergedIntoFirstCompatible ==
    \A path \in {"squads", "teams"} :
        MergedBoth(path) =>
            \A j \in 1..Len(call.other[path].items) :
                Quiet(path, j) =>
                    /\ \A pos \in 1..Len(call.self[path].items) :
                        MergedInto(path, j, pos)
                            => pos \in CompatibleWith(path, j)
                    /\ CompatibleWith(path, j) # {}
                        => MergedInto(path, j, Min(CompatibleWith(path, j)))

\* y passes the filters merge builds from x, a member of the tree
\* call.other: for every key field of x whose value, a Link resolved in
\* x's tree, is truthy, y's raw value is unset or equals that value.  A
\* Link never equals the node it resolves to.
PassesFilters(x, y) ==
    \A k \in KeyFields(x.cls) :
        Truthy(get(call.other, x, k)) =>
            \/ y[k] = Unset
            \/ PyEq(y[k], get(call.other, x, k))

\* What the code does: x is merged into the first y that passes the
\* filters built from x's truthy resolved key values, and into no other.
C26_MergedIntoFirstPassing ==
    \A path \in {"squads", "teams"} :
        MergedBoth(path) =>
            \A j \in 1..Len(call.other[path].items) :
                Quiet(path, j) =>
                    \A pos \in 1..Len(call.self[path].items) :
                        MergedInto(path, j, pos) <=>
                            /\ PassesFilters(Theirs(path, j), Ours(path, pos))
                            /\ \A q \in 1..(pos - 1) :
                                ~PassesFilters(Theirs(path, j),
                                               Ours(path, q))

\* A team with id 0 was merged into a team with id 1 of the same name.
C26_FalsyKeyIgnored ==
    /\ MergedBoth("teams")
    /\ call.self.teams.items # <<>> /\ call.other.teams.items # <<>>
    /\ Theirs("teams", 1).id = I(0) /\ Ours("teams", 1).id = I(1)
    /\ MergedInto("teams", 1, 1)

\* A squad whose team Link resolves in its tree was dropped although a's
\* collection holds the same squad.
C26_LinkedKeyNeverMatches ==
    /\ MergedBoth("squads") /\ call.other.teams # Unset
    /\ Len(call.self.squads.items) = 1 /\ call.other.squads.items # <<>>
    /\ Theirs("squads", 1).team = Ours("squads", 1).team
    /\ Theirs("squads", 1).id = Ours("squads", 1).id
    /\ Theirs("squads", 1).name = Ours("squads", 1).name
    /\ newer.squads = call.self.squads

-----------------------------------------------------------------------------
(* Properties of the models merged from *)

\* The last operation merged the tree call.other into another tree, or
\* gathered it with a second source.
MergedFrom == call.op \in {"merge_tree", "gather"}

\* C27: the tree merged from, and the first source of a gather, have the
\* same members and field values after the call as before it.
C27_SourceUntouched == MergedFrom => older = call.other

\* A merge leaves the tree merged from as it was.
C27_MergeLeavesSource == MergedTree => older = call.other

\* What gather does to its first source: the arrays that source holds are
\* the gathered root's own, so whatever the second source filled in their
\* members is filled in the first source's members.
C27_GatherSharesFirstSource ==
    call.op = "gather" =>
        /\ \A path \in {"players", "squads", "teams"} :
            call.other[path] # Unset => older[path] = newer[path]
        /\ older.server = call.other.server

\* The second source filled the role of a player of the first.
C27_FirstSourceFilled ==
    /\ call.op = "gather" /\ call.err = ""
    /\ call.other.players # Unset
    /\ \E i \in 1..Len(call.other.players.items) :
        /\ call.other.players.items[i].role = Unset
        /\ older.players.items[i].role # Unset
-----------------------------------------------------------------------------
(* Properties of joined_at along a chain of polls *)

\* The cycle before the last one, as PollNext recorded it.
Earlier == call.hist[Len(call.hist)]

\* joined_at of newer player i as the poll delivered it, and after the
\* diff.
Delivered(i) == NewerPlayer(i).joined_at
Settled(i) == newer.players.items[i].joined_at

\* Newer player i was matched in the last cycle, and its match in the
\* cycle before.
MatchedTwice(i) ==
    /\ Len(call.hist) > 0
    /\ call.tr.players[i].m # 0
    /\ Earlier.tr[call.tr.players[i].m].m # 0

-----------------------------------------------------------------------------
(* Properties of the entry removed on a match *)

\* The older positions taken out of the working copy during the call.
Removed == {call.tr.players[i].r : i \in 1..NewerCount} \ {0}

\* C29: each older player is matched by at most one newer player, the
\* entry removed from the working copy is the matched entry itself, an
\* older player that was matched is not reported as leaving and one that
\* no newer player matched is.
C29_RemovedIsMatched ==
    (DiffedPlayers /\ call.err = "") =>
        /\ \A i \in 1..NewerCount :
                call.tr.players[i].r = call.tr.players[i].m
        /\ \A i, j \in 1..NewerCount :
                (i # j /\ call.tr.players[i].m # 0)
                    => call.tr.players[i].m # call.tr.players[j].m
        /\ \A k \in 1..OlderCount :
                IF k \in Unmatched THEN Leaves(k) # {} ELSE Leaves(k) = {}

\* What the code does: the entry removed is the first one still in the
\* working copy with the hash of the match (its steamid, or its name when
\* it has no steamid), and the leave events are those of the entries never
\* removed.
C29_RemovedIsFirstOfHash ==
    (DiffedPlayers /\ call.err = "") =>
        /\ \A i \in 1..NewerCount :
            LET m == call.tr.players[i].m
                r == call.tr.players[i].r
            IN  IF m = 0 THEN r = 0
                ELSE /\ r \in Remaining(i) /\ r <= m
                     /\ HashOf(OlderPlayer(r)) = HashOf(OlderPlayer(m))
                     /\ \A k \in Remaining(i) :
                            k < r => HashOf(OlderPlayer(k))
                                        # HashOf(OlderPlayer(m))
        /\ \A k \in 1..OlderCount :
                IF k \in Removed THEN Leaves(k) = {}
                ELSE Cardinality(Leaves(k)) = 1

\* Two older players of one steamid and one newer player: the newer player
\* is matched to the second, the first is removed; the matched one is
\* reported as leaving and the unmatched one is not.
C29_MatchedReportedLeaving ==
    /\ DiffedPlayers /\ call.err = ""
    /\ NewerCount = 1 /\ OlderCount = 2
    /\ call.tr.players[1].m = 2 /\ call.tr.players[1].r = 1
    /\ Leaves(2) # {} /\ Leaves(1) = {}

\* An older player matched by two newer players.
C29_MatchedTwice ==
    /\ DiffedPlayers /\ call.err = "" /\ NewerCount = 2
    /\ call.tr.players[1].m # 0
    /\ call.tr.players[1].m = call.tr.players[2].m
-----------------------------------------------------------------------------
(* Properties of the number of events *)

\* The number of events of a kind that the last call added to its buffer.
AddedOf(kind) == Cardinality({j \in 1..Len(call.buf) : call.buf[j].cls = kind})

\* The number of events of a kind that a hopper holds.
HeldOf(h, kind) ==
    IF h.events[kind] = Unset THEN 0 ELSE Len(h.events[kind].items)

\* The last operation was a compare_older call that returned, on a newer
\* snapshot that held no event.
CompletedOnEmpty ==
    /\ call.op = "compare_older" /\ call.err = ""
    /\ \A kind \in DOMAIN call.self.events : NoEvents(call.self.events[kind])

\* C30: after a compare_older call that returned, on a newer snapshot
\* without events, joins minus leaves is the difference of the numbers of
\* players when both snapshots have players, and squads created minus
\* squads disbanded the difference of the numbers of squads when both have
\* squads, in the buffer of the call and in the events the newer snapshot
\* holds.
C30_Conservation ==
    CompletedOnEmpty =>
        /\ BothHave("players") =>
            /\ AddedOf("player_join_server") - AddedOf("player_leave_server")
                = NewerCount - OlderCount
            /\ HeldOf(newer, "player_join_server")
                    - HeldOf(newer, "player_leave_server")
                = NewerCount - OlderCount
        /\ BothHave("squads") =>
            /\ AddedOf("squad_created") - AddedOf("squad_disbanded")
                = Len(call.self.squads.items) - Len(call.other.squads.items)
            /\ HeldOf(newer, "squad_created")
                    - HeldOf(newer, "squad_disbanded")
                = Len(call.self.squads.items) - Len(call.other.squads.items)

\* A call with joins and leaves, squads created and a squad disbanded, the
\* numbers of players and of squads both differing between the snapshots.
C30_Witness ==
    /\ CompletedOnEmpty /\ BothHave("players") /\ BothHave("squads")
    /\ AddedOf("player_join_server") > 0
    /\ AddedOf("player_leave_server") > 0
    /\ NewerCount # OlderCount
    /\ AddedOf("squad_disbanded") > 0
    /\ AddedOf("squad_created") > AddedOf("squad_disbanded")
====
